---- MODULE Spec2Model ----
(***************************************************************************)
(* Suggestion pipeline of the design-request plugin back end: the analyze  *)
(* handlers (Azure Functions, Express, Netlify), the provider tiers they   *)
(* call, the natural-language parser, the mock generator, target           *)
(* resolution and value coercion.                                          *)
(*                                                                         *)
(* JavaScript strings are sequences of one-character strings, numbers are  *)
(* exact rationals (or NaN), and every JavaScript value carries its type   *)
(* in the field t, so that a method call on a value of the wrong type is a *)
(* TypeError here as it is in the program.                                 *)
(***************************************************************************)
EXTENDS Integers, Sequences, FiniteSets, TLC

VARIABLES handler, env, req, pc, run, attempts, reply, calls, res

vars == <<handler, env, req, pc, run, attempts, reply, calls, res>>

\* ------------------------------------------------------------------ bounds

\* Longest element list a request carries.
MaxElems == 2

\* ------------------------------------------------------- string literals

\* The grave accent (a TLA+ string cannot hold it) as one character.
Backtick == "GRAVE"
s_color == <<"c","o","l","o","r">>
s_size == <<"s","i","z","e">>
s_text == <<"t","e","x","t">>
s_general == <<"g","e","n","e","r","a","l">>
s_fill == <<"f","i","l","l">>
s_width == <<"w","i","d","t","h">>
s_height == <<"h","e","i","g","h","t">>
s_content == <<"c","o","n","t","e","n","t">>
s_selection == <<"s","e","l","e","c","t","i","o","n">>
s_analysis == <<"a","n","a","l","y","s","i","s">>
s_background == <<"b","a","c","k","g","r","o","u","n","d">>
s_title == <<"t","i","t","l","e">>
s_px == <<"p","x">>
s_rgb_open == <<"r","g","b","(">>
s_undefined == <<"u","n","d","e","f","i","n","e","d">>
s_null == <<"n","u","l","l">>
s_object == <<"[","o","b","j","e","c","t"," ","O","b","j","e","c","t","]">>
s_none == <<"n","o","n","e">>
s_no_color == <<"n","o"," ","c","o","l","o","r">>
s_no_selection == <<"n","o","-","s","e","l","e","c","t","i","o","n">>
s_fallback == <<"f","a","l","l","b","a","c","k">>
s_mock_dash == <<"m","o","c","k","-">>
s_Element_sp == <<"E","l","e","m","e","n","t"," ">>
s_UNKNOWN == <<"U","N","K","N","O","W","N">>
s_RECTANGLE == <<"R","E","C","T","A","N","G","L","E">>
s_ELLIPSE == <<"E","L","L","I","P","S","E">>
s_POLYGON == <<"P","O","L","Y","G","O","N">>
s_SHAPE_WITH_TEXT == <<"S","H","A","P","E","_","W","I","T","H","_","T","E","X","T">>
s_FRAME == <<"F","R","A","M","E">>
s_COMPONENT == <<"C","O","M","P","O","N","E","N","T">>
s_TEXT == <<"T","E","X","T">>
s_LINE == <<"L","I","N","E">>
s_white == <<"#","F","F","F","F","F","F">>
s_No_elements_selected == <<"N","o"," ","e","l","e","m","e","n","t","s"," ","s","e","l","e","c","t","e","d">>
s_Select_elements == <<"S","e","l","e","c","t"," ","e","l","e","m","e","n","t","s"," ","t","o"," ","g","e","t"," ","A","I"," ","s","u","g","g","e","s","t","i","o","n","s">>
s_Error_occurred == <<"E","r","r","o","r"," ","o","c","c","u","r","r","e","d">>
s_Fallback_suggestion == <<"F","a","l","l","b","a","c","k"," ","s","u","g","g","e","s","t","i","o","n">>
s_Current_design == <<"C","u","r","r","e","n","t"," ","d","e","s","i","g","n">>
s_See_AI == <<"S","e","e"," ","A","I"," ","r","e","c","o","m","m","e","n","d","a","t","i","o","n","s">>
s_fence_json == <<Backtick,Backtick,Backtick,"j","s","o","n">>
s_fence == <<Backtick,Backtick,Backtick>>
s_palette1 == <<"#","4","A","9","0","E","2">>
s_palette2 == <<"#","5","0","E","3","C","2">>
s_palette3 == <<"#","F","5","A","6","2","3">>
s_palette4 == <<"#","D","0","0","2","1","B">>
s_palette5 == <<"#","7","E","D","3","2","1">>
s_NaN == <<"N","a","N">>
s_Card == <<"C","a","r","d">>
s_heading == <<"h","e","a","d","i","n","g">>
s_Divider == <<"D","i","v","i","d","e","r">>
s_id_card == <<"1",":","1">>
s_id_title == <<"2",":","7">>
s_id_line == <<"3",":","3">>
s_not_an_array == <<"n","o","t","-","a","n","-","a","r","r","a","y">>
r_fill == <<"f","i","l","l"," ","#","f","f","0","0","0","0">>
r_size == <<"c","a","r","d"," ","w","i","d","t","h"," ","1","2","0","p","x">>
r_plain == <<"l","o","o","k","s"," ","f","i","n","e">>

\* Literals of the container server.
s_AI_analysis_complete == <<"A","I"," ","a","n","a","l","y","s","i","s"," ","c","o","m","p","l","e","t","e">>

\* ---------------------------------------------------------------- strings

UpperAlpha == <<"A","B","C","D","E","F","G","H","I","J","K","L","M","N","O","P","Q","R","S","T","U","V","W","X","Y","Z">>
LowerAlpha == <<"a","b","c","d","e","f","g","h","i","j","k","l","m","n","o","p","q","r","s","t","u","v","w","x","y","z">>
DigitChars == <<"0","1","2","3","4","5","6","7","8","9">>
Whitespace == {" ", "\n", "\t", "\r"}

\* String.prototype.toLowerCase / toUpperCase, one character.
ToLowerChar(c) ==
  IF \E i \in 1..26 : UpperAlpha[i] = c
  THEN LowerAlpha[CHOOSE i \in 1..26 : UpperAlpha[i] = c]
  ELSE c

ToUpperChar(c) ==
  IF \E i \in 1..26 : LowerAlpha[i] = c
  THEN UpperAlpha[CHOOSE i \in 1..26 : LowerAlpha[i] = c]
  ELSE c

ToLowerCase(s) == [i \in 1..Len(s) |-> ToLowerChar(s[i])]
ToUpperCase(s) == [i \in 1..Len(s) |-> ToUpperChar(s[i])]

IsDigit(c) == \E i \in 1..10 : DigitChars[i] = c
DigitVal(c) == (CHOOSE i \in 1..10 : DigitChars[i] = c) - 1

\* Value of a hexadecimal digit, -1 for any other character.
HexVal(c) ==
  IF IsDigit(c) THEN DigitVal(c)
  ELSE IF \E i \in 1..6 : LowerAlpha[i] = ToLowerChar(c)
       THEN 9 + (CHOOSE i \in 1..6 : LowerAlpha[i] = ToLowerChar(c))
       ELSE -1

\* s.slice(from) and s.slice(from, to), zero-based, to exclusive.
SliceFrom(s, from) == SubSeq(s, from + 1, Len(s))
Slice(s, from, to) == SubSeq(s, from + 1, IF to < Len(s) THEN to ELSE Len(s))

\* sub occurs in s at the one-based position i.
MatchAt(s, sub, i) == i >= 1 /\ i + Len(sub) - 1 <= Len(s) /\ SubSeq(s, i, i + Len(sub) - 1) = sub

\* String.prototype.includes / startsWith.
Includes(s, sub) == \E i \in 1..(Len(s) + 1) : MatchAt(s, sub, i)
StartsWith(s, sub) == MatchAt(s, sub, 1)

\* String.prototype.trim.
TrimStart(s) ==
  IF \A i \in 1..Len(s) : s[i] \in Whitespace THEN <<>>
  ELSE SubSeq(s, CHOOSE i \in 1..Len(s) : s[i] \notin Whitespace /\ \A j \in 1..(i-1) : s[j] \in Whitespace, Len(s))

TrimEnd(s) ==
  IF \A i \in 1..Len(s) : s[i] \in Whitespace THEN <<>>
  ELSE SubSeq(s, 1, CHOOSE i \in 1..Len(s) : s[i] \notin Whitespace /\ \A j \in (i+1)..Len(s) : s[j] \in Whitespace)

Trim(s) == TrimEnd(TrimStart(s))

\* s.split('\n').
RECURSIVE SplitLines(_)
SplitLines(s) ==
  IF \A i \in 1..Len(s) : s[i] # "\n" THEN <<s>>
  ELSE LET k == CHOOSE i \in 1..Len(s) : s[i] = "\n" /\ \A j \in 1..(i-1) : s[j] # "\n"
       IN <<SubSeq(s, 1, k - 1)>> \o SplitLines(SubSeq(s, k + 1, Len(s)))

\* One past the end of the longest run of digits starting at position i.
RECURSIVE DigitsEnd(_, _)
DigitsEnd(s, i) == IF i <= Len(s) /\ IsDigit(s[i]) THEN DigitsEnd(s, i + 1) ELSE i

\* One past the end of the longest run of whitespace starting at position i.
RECURSIVE SpaceEnd(_, _)
SpaceEnd(s, i) == IF i <= Len(s) /\ s[i] \in Whitespace THEN SpaceEnd(s, i + 1) ELSE i

\* Value of a sequence of decimal digits.
RECURSIVE DecValue(_)
DecValue(d) == IF d = <<>> THEN 0 ELSE 10 * DecValue(SubSeq(d, 1, Len(d) - 1)) + DigitVal(d[Len(d)])

\* Number.prototype.toString of a non-negative integer.
RECURSIVE IntToString(_)
IntToString(n) == IF n < 10 THEN <<DigitChars[n + 1]>> ELSE IntToString(n \div 10) \o <<DigitChars[(n % 10) + 1]>>

\* The least element of a non-empty set of integers.
Least(S) == CHOOSE x \in S : \A y \in S : x <= y

\* ------------------------------------------------------- JavaScript values

Undef == [t |-> "undefined"]
Null == [t |-> "null"]
Str(s) == [t |-> "string", s |-> s]
Arr(a) == [t |-> "array", a |-> a]

\* The outcome of an expression that throws.
Throw == [t |-> "throw"]

RECURSIVE GCD(_, _)
GCD(a, b) == IF b = 0 THEN a ELSE GCD(b, a % b)

Abs(n) == IF n < 0 THEN -n ELSE n

\* The number n/d in lowest terms; NaN is the number with denominator 0.
Rat(n, d) == LET g == GCD(Abs(n), d) IN [t |-> "number", n |-> n \div g, d |-> d \div g]
Num(n) == [t |-> "number", n |-> n, d |-> 1]
NaN == [t |-> "number", n |-> 0, d |-> 0]
IsNaN(v) == v.t = "number" /\ v.d = 0

\* x / 255 as the colour conversions compute it.
Div255(x) == IF IsNaN(x) THEN NaN ELSE Rat(x.n, 255 * x.d)

\* An {r, g, b} object.
Rgb(r, g, b) == [t |-> "object", r |-> r, g |-> g, b |-> b]

\* o.f, undefined when the object has no such property.
Get(o, f) == IF f \in DOMAIN o THEN o[f] ELSE Undef

\* ToBoolean: what if (v), !v, v || w and v && w test.
Truthy(v) ==
  CASE v.t = "undefined" -> FALSE
    [] v.t = "null" -> FALSE
    [] v.t = "string" -> v.s # <<>>
    [] v.t = "number" -> v.d # 0 /\ v.n # 0
    [] OTHER -> TRUE

\* v || w
OrElse(v, w) == IF Truthy(v) THEN v ELSE w

\* Number.prototype.toString, for NaN and the non-negative integers.
NumberToString(v) ==
  CASE v.d = 0 -> s_NaN
    [] v.d = 1 /\ v.n >= 0 -> IntToString(v.n)

\* String(v) for the values a suggestion field can hold.
ToStringJS(v) ==
  CASE v.t = "string" -> v.s
    [] v.t = "undefined" -> s_undefined
    [] v.t = "null" -> s_null
    [] v.t = "number" -> NumberToString(v)
    [] v.t = "object" -> s_object

\* One past the end of the longest run of radix digits starting at position i.
RECURSIVE RadixEnd(_, _, _)
RadixEnd(s, i, radix) ==
  IF i <= Len(s) /\ HexVal(s[i]) >= 0 /\ HexVal(s[i]) < radix THEN RadixEnd(s, i + 1, radix) ELSE i

RECURSIVE RadixValue(_, _)
RadixValue(d, radix) ==
  IF d = <<>> THEN 0 ELSE radix * RadixValue(SubSeq(d, 1, Len(d) - 1), radix) + HexVal(d[Len(d)])

\* parseInt(s, radix) for radix 10 and 16: leading whitespace, a sign, a 0x
\* prefix under radix 16, then the longest run of digits; NaN when there is
\* none. The steps, last first: the digits from c to e, the prefix at b, the
\* sign at a.
ParseIntDigits(s, radix, neg, c, e) ==
  IF e = c THEN NaN ELSE Num((IF neg THEN -1 ELSE 1) * RadixValue(SubSeq(s, c, e - 1), radix))

ParseIntPrefix(s, radix, neg, c) == ParseIntDigits(s, radix, neg, c, RadixEnd(s, c, radix))

ParseIntSign(s, radix, neg, b) ==
  ParseIntPrefix(s, radix, neg,
                 IF radix = 16 /\ b + 1 <= Len(s) /\ s[b] = "0" /\ s[b + 1] \in {"x", "X"} THEN b + 2 ELSE b)

ParseIntAt(s, radix, a) ==
  IF a <= Len(s) /\ s[a] \in {"+", "-"} THEN ParseIntSign(s, radix, s[a] = "-", a + 1)
  ELSE ParseIntSign(s, radix, FALSE, a)

ParseInt(s, radix) == ParseIntAt(s, radix, SpaceEnd(s, 1))

RECURSIVE Pow10(_)
Pow10(k) == IF k = 0 THEN 1 ELSE 10 * Pow10(k - 1)

\* --------------------------------------------------------- value coercion

NoMatch == [found |-> FALSE]

\* The pattern rgb\((\d+),\s*(\d+),\s*(\d+)\) matched at position i of s;
\* ci is the regular expression's i flag. The steps, last first: the closing
\* parenthesis after the third group (d3 to e3), the second group (d2 to
\* e2), the first (d1 to e1), the opening rgb( at i.
RgbClose(s, i, d1, e1, d2, e2, d3, e3) ==
  IF e3 > d3 /\ e3 <= Len(s) /\ s[e3] = ")"
  THEN [found |-> TRUE, whole |-> SubSeq(s, i, e3), g1 |-> SubSeq(s, d1, e1 - 1),
        g2 |-> SubSeq(s, d2, e2 - 1), g3 |-> SubSeq(s, d3, e3 - 1)]
  ELSE NoMatch

RgbThird(s, i, d1, e1, d2, e2, d3) == RgbClose(s, i, d1, e1, d2, e2, d3, DigitsEnd(s, d3))

RgbSecond(s, i, d1, e1, d2, e2) ==
  IF e2 > d2 /\ e2 <= Len(s) /\ s[e2] = "," THEN RgbThird(s, i, d1, e1, d2, e2, SpaceEnd(s, e2 + 1))
  ELSE NoMatch

RgbFirst(s, i, d1, e1) ==
  IF e1 > d1 /\ e1 <= Len(s) /\ s[e1] = ","
  THEN RgbSecond(s, i, d1, e1, SpaceEnd(s, e1 + 1), DigitsEnd(s, SpaceEnd(s, e1 + 1)))
  ELSE NoMatch

RgbAt(s, i, ci) ==
  IF i + 3 <= Len(s) /\ (IF ci THEN ToLowerCase(SubSeq(s, i, i + 3)) ELSE SubSeq(s, i, i + 3)) = s_rgb_open
  THEN RgbFirst(s, i, i + 4, DigitsEnd(s, i + 4))
  ELSE NoMatch

\* s.match of the rgb pattern: the leftmost match, or none.
RgbMatchIn(s, ci, hits) == IF hits = {} THEN NoMatch ELSE RgbAt(s, Least(hits), ci)

RgbMatch(s, ci) == RgbMatchIn(s, ci, {i \in 1..Len(s) : RgbAt(s, i, ci).found})

\* { r, g, b } of three channel values.
RgbOf(c) == Rgb(c[1], c[2], c[3])

\* The {r, g, b} object of three numerals: each is parsed and divided by 255.
Channels(numerals, radix) == RgbOf([k \in 1..3 |-> Div255(ParseInt(numerals[k], radix))])

\* The branch of parseColorValueForFigma for a string that is no six-digit
\* hex colour, with m the match of the rgb pattern.
RgbColor(m) == IF m.found THEN Channels(<<m.g1, m.g2, m.g3>>, 10) ELSE Null

\* The branches of parseColorValueForFigma for a string s.
StringColor(s) ==
  IF StartsWith(s, <<"#">>) /\ Len(s) = 7
  THEN Channels(<<Slice(s, 1, 3), Slice(s, 3, 5), Slice(s, 5, 7)>>, 16)
  ELSE RgbColor(RgbMatch(s, FALSE))

\* parseColorValueForFigma(colorStr): null, an {r, g, b} object, or a TypeError
\* when colorStr is truthy and has no startsWith method.
ParseColorValueForFigma(colorStr) ==
  IF ~Truthy(colorStr) THEN Null
  ELSE IF colorStr.t # "string" THEN Throw
  ELSE StringColor(colorStr.s)

\* The decimal numeral of str that starts at i, its integer part ending
\* before e and its fraction, if one follows, before fe.
Numeral(str, i, e, fe) ==
  IF fe = e THEN Num(DecValue(SubSeq(str, i, e - 1)))
  ELSE Rat(DecValue(SubSeq(str, i, e - 1)) * Pow10(fe - e - 1) + DecValue(SubSeq(str, e + 1, fe - 1)),
           Pow10(fe - e - 1))

NumeralTo(str, i, e) ==
  Numeral(str, i, e, IF e + 1 <= Len(str) /\ str[e] = "." /\ IsDigit(str[e + 1]) THEN DigitsEnd(str, e + 1) ELSE e)

NumeralAt(str, i) == NumeralTo(str, i, DigitsEnd(str, i))

FirstNumeral(str, digits) == IF digits = {} THEN Null ELSE NumeralAt(str, Least(digits))

\* parseNumericValueFromAI(value): the number itself, or the first decimal
\* numeral of String(value), or null.
ParseNumericString(str) == FirstNumeral(str, {i \in 1..Len(str) : IsDigit(str[i])})

ParseNumericValueFromAI(value) ==
  IF value.t = "number" THEN value ELSE ParseNumericString(ToStringJS(value))

\* ---------------------------------------------------------- mock generator

\* A suggestion object. confidence and reasoning are display text that no
\* step of the pipeline reads; they are left out.
Sug(type, elementId, property, currentValue, suggestedValue) ==
  [t |-> "object", type |-> type, elementId |-> elementId, property |-> property,
   currentValue |-> currentValue, suggestedValue |-> suggestedValue]

\* const colors = [...]
colors == <<s_palette1, s_palette2, s_palette3, s_palette4, s_palette5>>

FillableTypes == {s_RECTANGLE, s_ELLIPSE, s_POLYGON, s_SHAPE_WITH_TEXT, s_FRAME, s_COMPONENT}

NoSelectionSuggestion ==
  Sug(Str(s_general), Str(s_no_selection), Str(s_selection),
      Str(s_No_elements_selected), Str(s_Select_elements))

FallbackSuggestion ==
  Sug(Str(s_general), Str(s_fallback), Str(s_analysis),
      Str(s_Error_occurred), Str(s_Fallback_suggestion))

\* A generator that proposes the first colour of the palette for every element.
FirstColor(index) == colors[1]

\* const randomColor = colors[index % colors.length], index zero-based.
randomColor(index) == colors[(index % Len(colors)) + 1]

\* A callback that stores the fill it read, or its default, in the element.
ElementWithFill(element, index) ==
  [f \in DOMAIN element \cup {"fill"} |-> IF f \in DOMAIN element THEN element[f] ELSE Str(s_no_color)]

\* The element after the forEach callback ran for it: the callback copies
\* what it reads to constants of its own (elementType, elementName,
\* elementId, elementWidth, elementHeight, currentFill) and assigns nothing
\* to the element.
ElementAfter(element, index) == element

\* A generator that proposes the width the element has.
WidthUnchanged(w) == w

\* Math.round(w * 1.2) for a number w >= 0.
RoundTimes12(w) == Num((24 * w.n + 10 * w.d) \div (20 * w.d))

\* The body of elements.forEach in generateMockAIResponse for one element
\* (index zero-based): the suggestions it pushes, and whether it throws
\* (charAt on a name that is no string) after pushing them.
MockForElement(element, index) ==
  LET elementType == OrElse(Get(element, "type"), Str(s_UNKNOWN))
      elementName == OrElse(Get(element, "name"), Str(s_Element_sp \o IntToString(index + 1)))
      elementId == OrElse(Get(element, "id"), Str(s_mock_dash \o IntToString(index)))
      elementWidth == OrElse(Get(element, "width"), Num(0))
      elementHeight == OrElse(Get(element, "height"), Num(0))
      fill == Get(element, "fill")
      currentFill == IF Truthy(fill) /\ fill # Str(s_none) THEN fill ELSE Str(s_no_color)
      colorPart ==
        IF elementType.t = "string" /\ elementType.s \in FillableTypes
        THEN <<Sug(Str(s_color), elementId, Str(s_fill), currentFill, Str(randomColor(index)))>>
        ELSE <<>>
      sizePart ==
        IF Truthy(elementWidth) /\ Truthy(elementHeight)
        THEN <<Sug(Str(s_size), elementId, Str(s_width), Str(NumberToString(elementWidth)),
                   RoundTimes12(elementWidth))>>
        ELSE <<>>
      isText == elementType = Str(s_TEXT) /\ Truthy(elementName)
      textPart ==
        IF isText /\ elementName.t = "string"
        THEN <<Sug(Str(s_text), elementId, Str(s_content), elementName,
                   Str(<<ToUpperChar(elementName.s[1])>> \o ToLowerCase(Tail(elementName.s))))>>
        ELSE <<>>
  IN [sugs |-> colorPart \o sizePart \o textPart, threw |-> isText /\ elementName.t # "string"]

\* elements.forEach(...) from the element at one-based position i on, inside
\* the try block: an exception ends the loop and pushes the fallback suggestion.
RECURSIVE MockLoop(_, _)
MockLoop(elements, i) ==
  IF i > Len(elements) THEN <<>>
  ELSE LET m == MockForElement(elements[i], i - 1)
       IN IF m.threw THEN m.sugs \o <<FallbackSuggestion>>
          ELSE m.sugs \o MockLoop(elements, i + 1)

\* generateMockAIResponse(elementsData): the { suggestions } object.
GenerateMockAIResponse(elementsData) ==
  LET elements == IF elementsData.t = "array" THEN elementsData.a ELSE <<>>
  IN IF Len(elements) = 0
     THEN [t |-> "object", suggestions |-> Arr(<<NoSelectionSuggestion>>)]
     ELSE [t |-> "object", suggestions |-> Arr(MockLoop(elements, 1))]

\* ------------------------------------------------ natural-language parser

\* The found element of the two lookups: the first if it found one.
FirstFound(a, b) == IF a.found THEN a ELSE b

\* line.match(/#([0-9a-f]{6})/i): the leftmost match, or none.
HexMatchIn(s, hits) ==
  IF hits = {} THEN NoMatch
  ELSE [found |-> TRUE, whole |-> SubSeq(s, Least(hits), Least(hits) + 6),
        g1 |-> SubSeq(s, Least(hits) + 1, Least(hits) + 6)]

HexMatch(s) ==
  HexMatchIn(s, {i \in 1..Len(s) : /\ s[i] = "#"
                                   /\ i + 6 <= Len(s)
                                   /\ \A k \in 1..6 : HexVal(s[i + k]) >= 0})

\* line.match(/(\d+)px/g): the first of the matches, or none.
PxMatchIn(s, hits) ==
  IF hits = {} THEN NoMatch
  ELSE [found |-> TRUE, whole |-> SubSeq(s, Least(hits), DigitsEnd(s, Least(hits)) + 1)]

PxMatch(s) == PxMatchIn(s, {i \in 1..Len(s) : IsDigit(s[i]) /\ MatchAt(s, s_px, DigitsEnd(s, i))})

\* s.match(/"([^"]+)"/): the leftmost match, or none. quotes holds the
\* positions of the quotation marks of s.
QuotedBetween(s, i, j) == [found |-> TRUE, whole |-> SubSeq(s, i, j), g1 |-> SubSeq(s, i + 1, j - 1)]

NextQuote(quotes, i) == Least({j \in quotes : j > i})

QuotedIn(s, quotes, hits) ==
  IF hits = {} THEN NoMatch ELSE QuotedBetween(s, Least(hits), NextQuote(quotes, Least(hits)))

QuotedAmong(s, quotes) ==
  QuotedIn(s, quotes, {i \in quotes : (\E j \in quotes : j > i) /\ (i + 1) \notin quotes})

QuotedMatch(s) == QuotedAmong(s, {i \in 1..Len(s) : s[i] = "\""})

\* Map.prototype.set on a map kept as the sequence of its entries in
\* insertion order: a key already present keeps its place.
MapSet(m, k, v) ==
  IF \E i \in 1..Len(m) : m[i].k = k
  THEN [i \in 1..Len(m) |-> IF m[i].k = k THEN [k |-> k, v |-> v] ELSE m[i]]
  ELSE Append(m, [k |-> k, v |-> v])

\* elementMap.set(el.name.toLowerCase(), el); elementMap.set(el.id, el)
MapSetElement(m, el) == MapSet(MapSet(m, Str(ToLowerCase(el.name.s)), el), Get(el, "id"), el)

\* elements.forEach(el => ...) from the element at position i on.
RECURSIVE BuildElementMap(_, _, _)
BuildElementMap(elements, i, m) ==
  IF i > Len(elements) THEN m
  ELSE BuildElementMap(elements, i + 1, MapSetElement(m, elements[i]))

\* el.name.toLowerCase() throws for some element.
ElementMapThrows(elements) == \E i \in 1..Len(elements) : Get(elements[i], "name").t # "string"

\* The colour detector's scan of elementMap from entry i on: the element
\* found, none, or a TypeError at element.type.toLowerCase().
RECURSIVE ColorTarget(_, _, _)
ColorTarget(m, i, lowerLine) ==
  IF i > Len(m) THEN [found |-> FALSE, threw |-> FALSE]
  ELSE IF Includes(lowerLine, ToStringJS(m[i].k)) THEN [found |-> TRUE, threw |-> FALSE, el |-> m[i].v]
  ELSE IF Get(m[i].v, "type").t # "string" THEN [found |-> FALSE, threw |-> TRUE]
  ELSE IF Includes(lowerLine, ToLowerCase(m[i].v.type.s)) THEN [found |-> TRUE, threw |-> FALSE, el |-> m[i].v]
  ELSE ColorTarget(m, i + 1, lowerLine)

\* The first of the elements at the positions in hits, or none.
FirstAt(elements, hits) ==
  IF hits = {} THEN [found |-> FALSE] ELSE [found |-> TRUE, el |-> elements[Least(hits)]]

\* elements.find(el => el.type !== 'TEXT') || elements[0]
DefaultTarget(elements) ==
  IF Len(elements) = 0 THEN [found |-> FALSE]
  ELSE FirstFound(FirstAt(elements, {i \in 1..Len(elements) : Get(elements[i], "type") # Str(s_TEXT)}),
                  [found |-> TRUE, el |-> elements[1]])

\* suggestedColor: the rgb branch is taken for a match that starts with
\* lower-case rgb, the hex branch for every other match.
SuggestedColor(colorMatch, isRgb) ==
  Channels(IF isRgb THEN <<colorMatch.g1, colorMatch.g2, colorMatch.g3>>
           ELSE <<Slice(colorMatch.g1, 0, 2), Slice(colorMatch.g1, 2, 4), Slice(colorMatch.g1, 4, 6)>>,
           IF isRgb THEN 10 ELSE 16)

NoSuggestions == [sugs |-> <<>>, threw |-> FALSE]
Threw == [sugs |-> <<>>, threw |-> TRUE]

\* if (targetElement) suggestions.push({ type: 'color', ... })
ColorPush(colorMatch, target) ==
  IF ~target.found THEN NoSuggestions
  ELSE [sugs |-> <<Sug(Str(s_color), Get(target.el, "id"), Str(s_fill),
                       OrElse(Get(target.el, "fill"), Str(s_white)),
                       SuggestedColor(colorMatch, StartsWith(colorMatch.whole, <<"r", "g", "b">>)))>>,
        threw |-> FALSE]

\* The colour detector from the scan of elementMap on.
ColorScanned(colorMatch, scan, elements) ==
  IF scan.threw THEN Threw
  ELSE ColorPush(colorMatch, IF scan.found THEN scan ELSE DefaultTarget(elements))

\* The colour detector on one line: the suggestions pushed, and whether it throws.
ColorMatched(colorMatch, lowerLine, m, elements) ==
  IF /\ colorMatch.found
     /\ (Includes(lowerLine, s_color) \/ Includes(lowerLine, s_fill) \/ Includes(lowerLine, s_background))
  THEN ColorScanned(colorMatch, ColorTarget(m, 1, lowerLine), elements)
  ELSE NoSuggestions

ColorDetector(line, lowerLine, m, elements) ==
  ColorMatched(FirstFound(HexMatch(line), RgbMatch(line, TRUE)), lowerLine, m, elements)

\* suggestions.push({ type: 'size', ... })
SizeSuggestion(sizeMatch, targetElement, property) ==
  Sug(Str(s_size), Get(targetElement, "id"), Str(property),
      IF property = s_width THEN Get(targetElement, "width") ELSE Get(targetElement, "height"),
      ParseInt(sizeMatch.whole, 10))

\* The size detector from its scan of elementMap on: hits holds the entries
\* whose key the line includes.
SizeScanned(sizeMatch, lowerLine, m, hits) ==
  IF hits = {} THEN <<>>
  ELSE <<SizeSuggestion(sizeMatch, m[Least(hits)].v, IF Includes(lowerLine, s_width) THEN s_width ELSE s_height)>>

SizeMatched(sizeMatch, lowerLine, m) ==
  IF /\ sizeMatch.found
     /\ (Includes(lowerLine, s_width) \/ Includes(lowerLine, s_height) \/ Includes(lowerLine, s_size))
  THEN SizeScanned(sizeMatch, lowerLine, m, {i \in 1..Len(m) : Includes(lowerLine, ToStringJS(m[i].k))})
  ELSE <<>>

\* The size detector on one line.
SizeDetector(line, lowerLine, m) == SizeMatched(PxMatch(line), lowerLine, m)

\* suggestions.push({ type: 'text', ... })
TextSuggestion(textMatch, targetElement) ==
  Sug(Str(s_text), Get(targetElement, "id"), Str(s_content),
      OrElse(Get(targetElement, "characters"), Get(targetElement, "name")), Str(textMatch.g1))

\* The text detector from its choice among the text elements on: textAt
\* holds their positions, namedAt those whose name the line includes.
TextChosen(textMatch, elements, textAt, namedAt) ==
  IF textAt = {} THEN <<>>
  ELSE <<TextSuggestion(textMatch, elements[Least(IF namedAt # {} THEN namedAt ELSE textAt)])>>

TextAmong(textMatch, lowerLine, elements, textAt) ==
  TextChosen(textMatch, elements, textAt,
             {i \in textAt : Includes(lowerLine, ToLowerCase(elements[i].name.s))})

TextMatched(textMatch, lowerLine, elements) ==
  IF /\ textMatch.found
     /\ (Includes(lowerLine, s_text) \/ Includes(lowerLine, s_title) \/ Includes(lowerLine, s_content))
  THEN TextAmong(textMatch, lowerLine, elements,
                 {i \in 1..Len(elements) : Get(elements[i], "type") = Str(s_TEXT)})
  ELSE <<>>

\* The text detector on one line.
TextDetector(line, lowerLine, elements) == TextMatched(QuotedMatch(line), lowerLine, elements)

\* The suggestions of one line, given those of its colour detector and
\* those of the two detectors after it.
LineSuggestions(c, others) == IF c.threw THEN Threw ELSE [sugs |-> c.sugs \o others, threw |-> FALSE]

\* The body of the loop over the lines for one line.
ScanLine(line, lowerLine, m, elements) ==
  LineSuggestions(ColorDetector(line, lowerLine, m, elements),
                  SizeDetector(line, lowerLine, m) \o TextDetector(line, lowerLine, elements))

\* The suggestions of one line followed by those of the lines after it.
Joined(one, rest) ==
  IF one.threw \/ rest.threw THEN Threw ELSE [sugs |-> one.sugs \o rest.sugs, threw |-> FALSE]

\* for (const line of lines) from the line at position i on: the suggestions
\* pushed, and whether a detector throws.
RECURSIVE ScanLines(_, _, _, _)
ScanLines(lines, i, m, elements) ==
  IF i > Len(lines) THEN NoSuggestions
  ELSE Joined(ScanLine(lines[i], Trim(ToLowerCase(lines[i])), m, elements),
              ScanLines(lines, i + 1, m, elements))

\* The try block of parseFoundryAgentResponse for a message: it throws when
\* the message has no split method or an element has no name.
NaturalLanguage(message, elements) ==
  IF message.t # "string" \/ ElementMapThrows(elements) THEN Threw
  ELSE ScanLines(SplitLines(message.s), 1, BuildElementMap(elements, 1, <<>>), elements)

\* The summary suggestion pushed when no detector pushed one.
SummarySuggestion(elements) ==
  Sug(Str(s_general), Get(elements[1], "id"), Str(s_analysis), Str(s_Current_design), Str(s_See_AI))

\* What parseFoundryAgentResponse returns for the outcome of its try
\* block: every exception is answered by the mock generator.
Structured(scan, message, elements) ==
  IF scan.threw THEN GenerateMockAIResponse(Arr(elements))
  ELSE [t |-> "object",
        suggestions |-> Arr(IF scan.sugs = <<>> /\ Len(elements) > 0 THEN <<SummarySuggestion(elements)>>
                            ELSE scan.sugs),
        originalMessage |-> message]

ParseMessage(message, elements) == Structured(NaturalLanguage(message, elements), message, elements)

\* parseFoundryAgentResponse(foundryResponse, elements): the { suggestions }
\* object.
ParseFoundryAgentResponse(foundryResponse, elements) ==
  IF Get(foundryResponse, "suggestions").t = "array" THEN foundryResponse
  ELSE ParseMessage(OrElse(Get(foundryResponse, "message"), foundryResponse), elements)

\* parseFoundryAgentResponse of the container server: one general suggestion
\* for the first element; message.substring throws for a message that is no
\* string, which the catch answers with the mock generator.
AciParse(foundryResponse, message, elements) ==
  IF Get(foundryResponse, "suggestions").t = "array" THEN foundryResponse
  ELSE IF Len(elements) = 0 THEN [t |-> "object", suggestions |-> Arr(<<>>)]
  ELSE IF message.t # "string" THEN GenerateMockAIResponse(Arr(elements))
  ELSE [t |-> "object",
        suggestions |-> Arr(<<Sug(Str(s_general), Get(elements[1], "id"), Str(s_analysis),
                                  Str(s_Current_design), Str(s_AI_analysis_complete))>>)]

ParseFoundryAgentResponseAci(foundryResponse, elements) ==
  AciParse(foundryResponse, OrElse(Get(foundryResponse, "message"), foundryResponse), elements)

\* ------------------------------------------ target resolution and coercion

\* { ...o, f: v }
With(o, f, v) == [k \in (DOMAIN o) \cup {f} |-> IF k = f THEN v ELSE o[k]]

NotFound == [found |-> FALSE]

\* matchingElement?.id
IdOf(target) == IF target.found THEN Get(target.el, "id") ELSE Undef

\* if (suggestion.elementId && suggestion.elementId.includes(':'))
\*   matchingElement = elements.find(el => el.id === suggestion.elementId)
ById(elementId, elements) ==
  IF Truthy(elementId) /\ Includes(elementId.s, <<":">>)
  THEN FirstAt(elements, {i \in 1..Len(elements) : Get(elements[i], "id") = elementId})
  ELSE NotFound

\* if (nameMatch) matchingElement = elements.find(el => el.name === nameMatch[1])
ByQuotedName(nameMatch, elements) ==
  IF nameMatch.found
  THEN FirstAt(elements, {i \in 1..Len(elements) : Get(elements[i], "name") = Str(nameMatch.g1)})
  ELSE NotFound

\* const nameMatch = suggestion.elementId?.match(/"([^"]+)"/), and the lookup.
ByName(elementId, elements) ==
  ByQuotedName(IF elementId.t = "string" THEN QuotedMatch(elementId.s) ELSE NoMatch, elements)

\* Every unmatched suggestion goes to the first element.
AlwaysFirst(index, elements) ==
  IF Len(elements) > 0 THEN [found |-> TRUE, el |-> elements[1]] ELSE NotFound

\* matchingElement = elements[index % elements.length], index zero-based.
RoundRobin(index, elements) ==
  IF Len(elements) > 0 THEN [found |-> TRUE, el |-> elements[(index % Len(elements)) + 1]] ELSE NotFound

\* The element matching of the Azure Functions handlers for the suggestion
\* at the zero-based index of aiResponse.suggestions.
MatchElement(elementId, index, elements) ==
  FirstFound(ById(elementId, elements), FirstFound(ByName(elementId, elements), RoundRobin(index, elements)))

\* The colour branch of the callback, with colorValue the parsed colour.
ColorCoerced(placed, raw, colorValue) ==
  IF colorValue.t = "throw" THEN Throw ELSE With(placed, "suggestedValue", OrElse(colorValue, raw))

\* The callback from the type test on: placed is the suggestion with its
\* elementId replaced, raw its suggestedValue.
Coerced(placed, raw) ==
  IF Get(placed, "type") = Str(s_color) THEN ColorCoerced(placed, raw, ParseColorValueForFigma(raw))
  ELSE IF Get(placed, "type") = Str(s_size)
  THEN With(placed, "suggestedValue", OrElse(ParseNumericValueFromAI(raw), raw))
  ELSE placed

\* The callback of aiResponse.suggestions.map in the Azure Functions
\* handlers: the enhanced suggestion, or Throw (an elementId that is
\* neither a string nor nullish has no includes or match method).
EnhanceSuggestion(suggestion, index, elements) ==
  IF Get(suggestion, "elementId").t \notin {"string", "undefined", "null"} THEN Throw
  ELSE Coerced(With(suggestion, "elementId", IdOf(MatchElement(Get(suggestion, "elementId"), index, elements))),
               Get(suggestion, "suggestedValue"))

\* Strategy 3 of the Express handler: the first element whose name or type
\* is part of the elementId.
ByPart(elementId, elements) ==
  FirstAt(elements, {i \in 1..Len(elements) :
                       \/ Includes(elementId.s, ToStringJS(Get(elements[i], "name")))
                       \/ Includes(elementId.s, ToStringJS(Get(elements[i], "type")))})

\* The four matching strategies of the Express handler, for an elementId
\* that is a string.
MatchElementExpress(elementId, suggestionIndex, elements) ==
  FirstFound(ById(elementId, elements),
             FirstFound(ByName(elementId, elements),
                        FirstFound(ByPart(elementId, elements), RoundRobin(suggestionIndex, elements))))

\* |a - b| for two numbers, NaN if either is NaN.
AbsDiff(a, b) ==
  IF IsNaN(a) \/ IsNaN(b) THEN NaN ELSE Rat(Abs(a.n * b.d - b.n * a.d), a.d * b.d)

\* a + b
Plus(a, b) ==
  IF IsNaN(a) \/ IsNaN(b) THEN NaN ELSE Rat(a.n * b.d + b.n * a.d, a.d * b.d)

\* colorDiff: the sum of the three channel differences.
ColorDiff(currentColor, colorValue) ==
  Plus(Plus(AbsDiff(currentColor.r, colorValue.r), AbsDiff(currentColor.g, colorValue.g)),
       AbsDiff(currentColor.b, colorValue.b))

\* colorDiff < 0.01 (a comparison with NaN is false)
BelowHundredth(x) == ~IsNaN(x) /\ 100 * x.n < x.d

\* The colour branch of the Express callback from the parse of currentValue on.
ExpressCompared(placed, colorValue, currentColor) ==
  IF currentColor.t = "throw" THEN Throw
  ELSE IF Truthy(currentColor) /\ BelowHundredth(ColorDiff(currentColor, colorValue)) THEN Null
  ELSE With(placed, "suggestedValue", colorValue)

\* The colour branch of the Express callback, with colorValue the parsed colour.
ExpressColor(placed, colorValue, currentValue) ==
  IF colorValue.t = "throw" THEN Throw
  ELSE IF Truthy(colorValue) /\ Truthy(currentValue)
  THEN ExpressCompared(placed, colorValue, ParseColorValueForFigma(currentValue))
  ELSE With(placed, "suggestedValue", colorValue)

\* The Express callback from the type test on.
ExpressCoerced(placed, raw) ==
  IF Get(placed, "type") = Str(s_color)
  THEN ExpressColor(placed, ParseColorValueForFigma(raw), Get(placed, "currentValue"))
  ELSE IF Get(placed, "type") = Str(s_size)
  THEN With(placed, "suggestedValue", ParseNumericValueFromAI(raw))
  ELSE placed

\* The callback of aiResponse.suggestions.map in the Express handler: the
\* enhanced suggestion, Null for a colour suggestion it skips, or Throw (an
\* elementId that is no string has no match method).
EnhanceSuggestionExpress(suggestion, suggestionIndex, elements) ==
  IF Get(suggestion, "elementId").t # "string" THEN Throw
  ELSE ExpressCoerced(With(suggestion, "elementId",
                           IdOf(MatchElementExpress(Get(suggestion, "elementId"), suggestionIndex, elements))),
                      Get(suggestion, "suggestedValue"))

\* The callback of aiResponse.suggestions.map in the container server: the
\* target is elements[index % elements.length], whatever the suggestion's
\* elementId is.
EnhanceSuggestionAci(suggestion, index, elements) ==
  Coerced(With(suggestion, "elementId", IdOf(RoundRobin(index, elements))), Get(suggestion, "suggestedValue"))

\* The map callback of the handler style: "express" for server.js, "aci" for
\* the container server, "functions" for the Azure Functions handlers.
Callback(style, suggestion, index, elements) ==
  IF style = "express" THEN EnhanceSuggestionExpress(suggestion, index, elements)
  ELSE IF style = "aci" THEN EnhanceSuggestionAci(suggestion, index, elements)
  ELSE EnhanceSuggestion(suggestion, index, elements)

\* The mapped and filtered suggestions of one suggestion and of those after
\* it: filter(s => s !== null) drops a null, an exception ends the mapping.
Kept(one, rest) ==
  IF one.t = "throw" \/ rest.threw THEN [threw |-> TRUE, items |-> <<>>]
  ELSE IF one.t = "null" THEN rest
  ELSE [threw |-> FALSE, items |-> <<one>> \o rest.items]

\* suggestions.map(callback).filter(s => s !== null) over item i and the
\* items after it: the suggestions kept, or threw when a callback throws.
RECURSIVE MapFilter(_, _, _, _)
MapFilter(items, i, elements, style) ==
  IF i > Len(items) THEN [threw |-> FALSE, items |-> <<>>]
  ELSE Kept(Callback(style, items[i], i - 1, elements), MapFilter(items, i + 1, elements, style))

\* aiResponse.suggestions.map(...).filter(...): it throws as well when
\* aiResponse has no suggestions array to map over.
EnhancedSuggestions(aiResponse, elements, style) ==
  IF Get(aiResponse, "suggestions").t # "array" THEN [threw |-> TRUE, items |-> <<>>]
  ELSE MapFilter(aiResponse.suggestions.a, 1, elements, style)
\* a reply without a suggestions array: {"message":"ok"}
j_none == <<"{","\"","m","e","s","s","a","g","e","\"",":","\"","o","k","\"","}">>
v_none == [t |-> "object", message |-> Str(<<"o","k">>)]

\* no suggestions: {"suggestions":[]}
j_empty == <<"{","\"","s","u","g","g","e","s","t","i","o","n","s","\"",":","[","]","}">>
v_empty == [t |-> "object", suggestions |-> Arr(<<>>)]

\* a colour suggestion one channel step from its current value, then two suggestions, none naming an element: {"suggestions":[{"type":"color","elementId":"x","currentValue":"#FFFFFF","suggestedValue":"#FFFFFE"},{"type":"size","elementId":"y","suggestedValue":"120px"},{"type":"text","elementId":"z","suggestedValue":"Hi"}]}
j_drop == <<"{","\"","s","u","g","g","e","s","t","i","o","n","s","\"",":","[","{","\"","t","y","p","e","\"",":","\"","c","o","l","o","r","\"",",","\"","e","l","e","m","e","n","t","I","d","\"",":","\"","x","\"",",","\"","c","u","r","r","e","n","t","V","a","l","u","e","\"",":","\"","#","F","F","F","F","F","F","\"",",","\"","s","u","g","g","e","s","t","e","d","V","a","l","u","e","\"",":","\"","#","F","F","F","F","F","E","\"","}",",","{","\"","t","y","p","e","\"",":","\"","s","i","z","e","\"",",","\"","e","l","e","m","e","n","t","I","d","\"",":","\"","y","\"",",","\"","s","u","g","g","e","s","t","e","d","V","a","l","u","e","\"",":","\"","1","2","0","p","x","\"","}",",","{","\"","t","y","p","e","\"",":","\"","t","e","x","t","\"",",","\"","e","l","e","m","e","n","t","I","d","\"",":","\"","z","\"",",","\"","s","u","g","g","e","s","t","e","d","V","a","l","u","e","\"",":","\"","H","i","\"","}","]","}">>
v_drop == [t |-> "object", suggestions |-> Arr(<<[t |-> "object", type |-> Str(<<"c","o","l","o","r">>), elementId |-> Str(<<"x">>), currentValue |-> Str(<<"#","F","F","F","F","F","F">>), suggestedValue |-> Str(<<"#","F","F","F","F","F","E">>)], [t |-> "object", type |-> Str(<<"s","i","z","e">>), elementId |-> Str(<<"y">>), suggestedValue |-> Str(<<"1","2","0","p","x">>)], [t |-> "object", type |-> Str(<<"t","e","x","t">>), elementId |-> Str(<<"z">>), suggestedValue |-> Str(<<"H","i">>)]>>)]

\* a suggestion without elementId: {"suggestions":[{"type":"size","suggestedValue":"120px"}]}
j_noid == <<"{","\"","s","u","g","g","e","s","t","i","o","n","s","\"",":","[","{","\"","t","y","p","e","\"",":","\"","s","i","z","e","\"",",","\"","s","u","g","g","e","s","t","e","d","V","a","l","u","e","\"",":","\"","1","2","0","p","x","\"","}","]","}">>
v_noid == [t |-> "object", suggestions |-> Arr(<<[t |-> "object", type |-> Str(<<"s","i","z","e">>), suggestedValue |-> Str(<<"1","2","0","p","x">>)]>>)]

\* a suggestion for an id that no element of the request has: {"suggestions":[{"type":"text","elementId":"9:9","suggestedValue":"Hi"}]}
j_alien == <<"{","\"","s","u","g","g","e","s","t","i","o","n","s","\"",":","[","{","\"","t","y","p","e","\"",":","\"","t","e","x","t","\"",",","\"","e","l","e","m","e","n","t","I","d","\"",":","\"","9",":","9","\"",",","\"","s","u","g","g","e","s","t","e","d","V","a","l","u","e","\"",":","\"","H","i","\"","}","]","}">>
v_alien == [t |-> "object", suggestions |-> Arr(<<[t |-> "object", type |-> Str(<<"t","e","x","t">>), elementId |-> Str(<<"9",":","9">>), suggestedValue |-> Str(<<"H","i">>)]>>)]

\* a colour suggestion whose value is no colour text and a size suggestion whose value has no numeral: {"suggestions":[{"type":"color","elementId":"1:1","currentValue":"#FFFFFF","suggestedValue":"blue"},{"type":"size","elementId":"1:1","suggestedValue":"auto"}]}
j_raw == <<"{","\"","s","u","g","g","e","s","t","i","o","n","s","\"",":","[","{","\"","t","y","p","e","\"",":","\"","c","o","l","o","r","\"",",","\"","e","l","e","m","e","n","t","I","d","\"",":","\"","1",":","1","\"",",","\"","c","u","r","r","e","n","t","V","a","l","u","e","\"",":","\"","#","F","F","F","F","F","F","\"",",","\"","s","u","g","g","e","s","t","e","d","V","a","l","u","e","\"",":","\"","b","l","u","e","\"","}",",","{","\"","t","y","p","e","\"",":","\"","s","i","z","e","\"",",","\"","e","l","e","m","e","n","t","I","d","\"",":","\"","1",":","1","\"",",","\"","s","u","g","g","e","s","t","e","d","V","a","l","u","e","\"",":","\"","a","u","t","o","\"","}","]","}">>
v_raw == [t |-> "object", suggestions |-> Arr(<<[t |-> "object", type |-> Str(<<"c","o","l","o","r">>), elementId |-> Str(<<"1",":","1">>), currentValue |-> Str(<<"#","F","F","F","F","F","F">>), suggestedValue |-> Str(<<"b","l","u","e">>)], [t |-> "object", type |-> Str(<<"s","i","z","e">>), elementId |-> Str(<<"1",":","1">>), suggestedValue |-> Str(<<"a","u","t","o">>)]>>)]

\* a suggestion without type: {"suggestions":[{"elementId":"1:1","suggestedValue":"Hi"}]}
j_untyped == <<"{","\"","s","u","g","g","e","s","t","i","o","n","s","\"",":","[","{","\"","e","l","e","m","e","n","t","I","d","\"",":","\"","1",":","1","\"",",","\"","s","u","g","g","e","s","t","e","d","V","a","l","u","e","\"",":","\"","H","i","\"","}","]","}">>
v_untyped == [t |-> "object", suggestions |-> Arr(<<[t |-> "object", elementId |-> Str(<<"1",":","1">>), suggestedValue |-> Str(<<"H","i">>)]>>)]


\* --------------------------------------------------------- provider replies

\* cleanedResponse.replace(/...json\n?/, '').replace(/\n?...$/, '') for a
\* string that starts with the json fence: the opening fence and one line
\* break after it go, then a closing fence at the very end of the string and
\* one line break before it.
StripFence(s) ==
  LET n == Len(s_fence_json)
      opened == IF Len(s) > n /\ s[n + 1] = "\n" THEN SliceFrom(s, n + 1) ELSE SliceFrom(s, n)
      m == Len(opened)
      closed == m >= 3 /\ Slice(opened, m - 3, m) = s_fence
  IN IF ~closed THEN opened
     ELSE IF m >= 4 /\ opened[m - 3] = "\n" THEN Slice(opened, 0, m - 4)
     ELSE Slice(opened, 0, m - 3)

\* The cleaning of the Express and Azure Functions handlers: trim, then strip
\* the fence if the trimmed text starts with it.
CleanResponse(rawResponse) ==
  LET cleanedResponse == Trim(rawResponse)
  IN IF StartsWith(cleanedResponse, s_fence_json) THEN StripFence(cleanedResponse) ELSE cleanedResponse

\* The cleaning of the Netlify function: no trim.
CleanContent(content) ==
  IF StartsWith(content, s_fence_json) THEN StripFence(content) ELSE content

\* The JSON reply j_alien inside a json fence, with line breaks.
j_fenced == s_fence_json \o <<"\n">> \o j_alien \o <<"\n">> \o s_fence

\* The texts a provider answers with: free text for the natural-language
\* parser, JSON documents, a fenced JSON document and the empty string.
Replies == {r_fill, r_size, r_plain, <<>>, j_none, j_empty, j_drop, j_noid, j_alien, j_raw, j_untyped, j_fenced}

\* JSON.parse over the reply texts: the value of each JSON document (white
\* space around it is allowed), a SyntaxError for every other text.
JSONParse(text) ==
  LET doc == Trim(text)
  IN CASE doc = j_none -> v_none
       [] doc = j_empty -> v_empty
       [] doc = j_drop -> v_drop
       [] doc = j_noid -> v_noid
       [] doc = j_alien -> v_alien
       [] doc = j_raw -> v_raw
       [] doc = j_untyped -> v_untyped
       [] OTHER -> Throw

\* ---------------------------------------------------------------- requests

E_card ==
  [t |-> "object", id |-> Str(s_id_card), name |-> Str(s_Card), type |-> Str(s_RECTANGLE),
   width |-> Num(100), height |-> Num(50), fill |-> Str(s_white)]

E_title ==
  [t |-> "object", id |-> Str(s_id_title), name |-> Str(s_heading), type |-> Str(s_TEXT),
   width |-> Num(80), height |-> Num(20)]

\* A line: no fill, and a height of zero.
E_line ==
  [t |-> "object", id |-> Str(s_id_line), name |-> Str(s_Divider), type |-> Str(s_LINE),
   width |-> Num(100), height |-> Num(0)]

\* An element that carries nothing but its type.
E_anon == [t |-> "object", type |-> Str(s_FRAME)]

Elements == {E_card, E_title, E_line, E_anon}

\* The element lists of at most MaxElems elements.
ElementLists == UNION {[1..n -> Elements] : n \in 0..MaxElems}

\* The request bodies: none, an object without elements, one whose elements
\* is no array, one with each element list, and one with the list nested
\* under data.
Bodies ==
  {Undef, [t |-> "object"], [t |-> "object", elements |-> Str(s_not_an_array)],
   [t |-> "object", data |-> [t |-> "object", elements |-> Arr(<<E_card>>)]]}
  \cup {[t |-> "object", elements |-> Arr(l)] : l \in ElementLists}

\* The handlers: api/analyze-foundry, the two Azure Functions analyze
\* handlers, the Express route of server.js, the Netlify function and the
\* /api/analyze-foundry route of the container server.
Handlers == {"foundry", "analyze", "anonymous", "express", "netlify", "aci"}

\* The environment as the handlers read it. credentials stands for
\* AZURE_TENANT_ID && AZURE_CLIENT_ID && AZURE_CLIENT_SECRET and openai for
\* AZURE_OPENAI_ENDPOINT && AZURE_OPENAI_API_KEY && AZURE_OPENAI_DEPLOYMENT_NAME,
\* which the handlers only test as conjunctions; useRealAI is
\* USE_REAL_AI === 'true'.
Envs == [project : BOOLEAN, agent : BOOLEAN, credentials : BOOLEAN, openai : BOOLEAN, useRealAI : BOOLEAN]

\* Express routes POST only to its handlers.
Methods(h) == IF h \in {"express", "aci"} THEN {"POST"} ELSE {"OPTIONS", "POST"}

\* ---------------------------------------------------------------- responses

\* What the client receives: status 0 while nothing has been sent.
Response(status, success, suggestions, source, error) ==
  [status |-> status, success |-> success, suggestions |-> suggestions, source |-> source, error |-> error]

NoResponse == Response(0, "absent", Undef, "", "")

\* const elements = directElements || data?.elements [|| []]
RequestElements(h, body) ==
  LET directElements == Get(body, "elements")
      data == Get(body, "data")
      nested == IF data.t = "object" THEN Get(data, "elements") ELSE Undef
  IN IF h = "netlify" THEN directElements
     ELSE IF h = "express" THEN OrElse(directElements, nested)
     ELSE OrElse(OrElse(directElements, nested), Arr(<<>>))

\* !elements || !Array.isArray(elements)
InvalidElements(elements) == ~Truthy(elements) \/ elements.t # "array"

\* The 400 response for a request without an elements array.
BadRequest == Response(400, "absent", Undef, "", "Invalid request: elements array is required")

\* ----------------------------------------------------------- state machine

\* maxAttempts of the polling loop.
maxAttempts == 60

\* The statuses a run reports; every status but queued and in_progress ends
\* the polling loop.
RunStatuses == {"queued", "in_progress", "completed", "failed", "cancelled", "expired", "requires_action"}

\* The elements array of an accepted request.
requestElements == RequestElements(handler, req.body).a

\* generateMockAIResponse([]).suggestions || []
CatchSuggestions == OrElse(Get(GenerateMockAIResponse(Arr(<<>>)), "suggestions"), Arr(<<>>))

\* An outer catch block that throws in its turn: nothing is sent.
FoundryCatchRejects == NoResponse

\* The response of each handler's outer catch block. The catch blocks of
\* the Express route, the Netlify function and the anonymous handler read a
\* const that is declared inside the try block (elements, elements,
\* corsHeaders): the read is a ReferenceError, the handler's promise rejects
\* and nothing is sent.
FoundryCatch == Response(200, "true", CatchSuggestions, "Mock Fallback", "")
AnalyzeCatch == Response(200, "true", CatchSuggestions, "", "")
AnonymousCatch == NoResponse
ExpressCatch == NoResponse
NetlifyCatch == NoResponse
AciCatch == Response(200, "true", CatchSuggestions, "Mock Fallback (ACI)", "")

CatchOf(h) ==
  CASE h = "foundry" -> FoundryCatch
    [] h = "analyze" -> AnalyzeCatch
    [] h = "anonymous" -> AnonymousCatch
    [] h = "express" -> ExpressCatch
    [] h = "netlify" -> NetlifyCatch
    [] h = "aci" -> AciCatch

\* The handler ends with the response caught, or rejects without one.
Caught(log, caught) ==
  /\ calls' = log \o <<"catch">>
  /\ res' = caught
  /\ pc' = IF caught = NoResponse THEN "rejected" ELSE "done"

\* The outer catch block runs after the steps in log.
OuterCatch(log) == Caught(log, CatchOf(handler))

\* The response on the normal path of each handler.
FoundrySuccess(suggestions) == Response(200, "true", suggestions, "Azure AI Foundry Agent", "")
FunctionSuccess(suggestions) == Response(200, "true", suggestions, "", "")
AnonymousSuccess(suggestions) == Response(200, "true", suggestions, "CXS AI Design Request Plugin", "")
ExpressSuccess(suggestions) == Response(200, "absent", suggestions, "", "")
NetlifySuccess(suggestions) == Response(200, "absent", suggestions, "", "")
AciSuccess(suggestions) == Response(200, "true", suggestions, "Azure AI Foundry Agent (ACI)", "")

SuccessOf(h, suggestions) ==
  CASE h = "foundry" -> FoundrySuccess(suggestions)
    [] h = "analyze" -> FunctionSuccess(suggestions)
    [] h = "anonymous" -> AnonymousSuccess(suggestions)
    [] h = "express" -> ExpressSuccess(suggestions)
    [] h = "netlify" -> NetlifySuccess(suggestions)
    [] h = "aci" -> AciSuccess(suggestions)

\* The handler answers with the mapped and filtered suggestions, or runs
\* the outer catch block when the mapping threw.
Answer(enhanced, log) ==
  IF enhanced.threw THEN OuterCatch(log)
  ELSE /\ calls' = log
       /\ pc' = "done"
       /\ res' = SuccessOf(handler, Arr(enhanced.items))

\* The map callback a handler uses.
StyleOf(h) == IF h \in {"express", "aci"} THEN h ELSE "functions"

\* From aiResponse to the end of the handler.
Respond(aiResponse, log) ==
  Answer(EnhancedSuggestions(aiResponse, requestElements, StyleOf(handler)), log)

\* aiResponse = generateMockAIResponse(elements), then the rest of the handler.
UseMock(log) == Respond(GenerateMockAIResponse(Arr(requestElements)), log \o <<"mock">>)

\* The handler returns a response without computing suggestions.
Return(response) ==
  /\ res' = response
  /\ pc' = "done"
  /\ calls' = calls

\* The handler awaits a provider call.
Await(call, position) ==
  /\ pc' = position
  /\ calls' = calls \o <<call>>
  /\ res' = res

\* The request reaches the api/analyze-foundry handler, which runs up to its
\* first await.
FoundryReceive ==
  /\ handler = "foundry" /\ pc = "received"
  /\ UNCHANGED <<handler, env, req, run, attempts, reply>>
  /\ IF req.method = "OPTIONS" THEN Return(Response(200, "absent", Undef, "", ""))
     ELSE IF req.body.t # "object" THEN OuterCatch(calls)
     ELSE IF InvalidElements(RequestElements(handler, req.body)) THEN Return(BadRequest)
     ELSE IF env.project /\ env.agent /\ env.credentials THEN Await("token", "token")
     ELSE IF env.project /\ env.agent /\ env.openai THEN Await("completion", "completion")
     ELSE UseMock(IF env.project /\ env.agent THEN calls \o <<"no_response">> ELSE calls)

\* callAzureAIFoundryAgent throws: the handler's restError catch rethrows
\* and its aiError catch answers with the mock generator.
AgentFailed == UseMock(calls \o <<"agent_failed">>)

\* getAzureAccessToken returns: with a token, without one (the token
\* response has no access_token, and callAzureAIFoundryAgent throws at
\* once), or with an exception.
TokenReturn ==
  /\ pc = "token"
  /\ UNCHANGED <<handler, env, req, run, attempts, reply>>
  /\ \E outcome \in {"token", "no_token", "failed"} :
       IF outcome = "token" THEN Await("agent", "thread")
       ELSE UseMock(calls \o (IF outcome = "no_token" THEN <<"agent", "agent_failed">> ELSE <<"token_failed">>))

\* The POST that creates the thread returns.
ThreadReturn ==
  /\ pc = "thread"
  /\ UNCHANGED <<handler, env, req, run, attempts, reply>>
  /\ \E ok \in BOOLEAN :
       IF ok THEN pc' = "message" /\ UNCHANGED <<calls, res>> ELSE AgentFailed

\* The POST that creates the message returns.
MessageReturn ==
  /\ pc = "message"
  /\ UNCHANGED <<handler, env, req, run, attempts, reply>>
  /\ \E ok \in BOOLEAN :
       IF ok THEN pc' = "run" /\ UNCHANGED <<calls, res>> ELSE AgentFailed

\* run.status === 'queued' || run.status === 'in_progress'
Pending(status) == status \in {"queued", "in_progress"}

\* A loop that allows one poll more than maxAttempts.
PollsOnceMore(status, made) == Pending(status) /\ made <= maxAttempts

\* The loop waits and polls again: the run is unfinished and the attempts
\* made are fewer than maxAttempts (otherwise 'Run timed out' is thrown).
PollsAgain(status, made) == Pending(status) /\ made < maxAttempts

\* The polling loop from its test on, with the status of the run (or threw
\* when the request for it threw) and the attempts made: wait and poll
\* again, leave the loop for the messages, or fail (the request threw, the
\* loop timed out, the run failed). run and attempts are locals of the loop
\* that nothing reads once it is left; they are cleared then.
AfterStatus(status, made) ==
  IF PollsAgain(status, made)
  THEN /\ run' = status
       /\ attempts' = made
       /\ pc' = "poll"
       /\ UNCHANGED <<calls, res>>
  ELSE /\ run' = "none"
       /\ attempts' = 0
       /\ IF ~Pending(status) /\ status \notin {"failed", "threw"} THEN pc' = "messages" /\ UNCHANGED <<calls, res>>
          ELSE UseMock(calls \o (IF Pending(status) THEN <<"timed_out", "agent_failed">>
                                 ELSE <<"agent_failed">>))

\* The POST that creates the run returns.
RunReturn ==
  /\ pc = "run"
  /\ UNCHANGED <<handler, env, req, reply>>
  /\ \E status \in RunStatuses \cup {"threw"} : AfterStatus(status, 0)

\* One status poll returns.
PollReturn ==
  /\ pc = "poll"
  /\ UNCHANGED <<handler, env, req, reply>>
  /\ \E status \in RunStatuses \cup {"threw"} : AfterStatus(status, attempts + 1)

\* The GET of the thread's messages returns: an exception or no usable
\* assistant text, or the assistant's text.
MessagesReturn ==
  /\ pc = "messages"
  /\ UNCHANGED <<handler, env, req, run, attempts>>
  /\ \/ /\ reply' = reply
        /\ AgentFailed
     \/ \E text \in Replies :
          /\ reply' = Str(text)
          /\ pc' = "cleanup"
          /\ UNCHANGED <<calls, res>>

\* The DELETE of the thread returns or throws (which is caught): the agent
\* call returns { message }, the handler parses it and answers.
CleanupReturn ==
  /\ pc = "cleanup"
  /\ UNCHANGED <<handler, env, req, run, attempts, reply>>
  /\ Respond(IF handler = "aci"
             THEN ParseFoundryAgentResponseAci([t |-> "object", message |-> reply], requestElements)
             ELSE ParseFoundryAgentResponse([t |-> "object", message |-> reply], requestElements),
             calls \o <<"agent_ok", "parse">>)

\* What a chat-completions call hands back: an exception, or the content of
\* the first choice, which is a string or null.
Contents == {Null} \cup {Str(text) : text \in Replies}

\* What a provider call can end with: one of the contents, or an exception.
Outcomes == Contents \cup {Throw}

\* The text received from a provider call: the variable it is assigned to
\* keeps its value when the call throws.
Received(outcome) == IF outcome.t = "throw" THEN reply ELSE outcome

\* callAzureAIFoundryViaOpenAI returns { message: content } to the
\* api/analyze-foundry handler, or throws.
FoundryCompletionReturn ==
  /\ handler = "foundry" /\ pc = "completion"
  /\ UNCHANGED <<handler, env, req, run, attempts>>
  /\ \E content \in Outcomes :
       /\ reply' = Received(content)
       /\ Respond(IF content.t = "throw" THEN GenerateMockAIResponse(Arr(requestElements))
                  ELSE ParseFoundryAgentResponse([t |-> "object", message |-> content], requestElements),
                  calls \o (IF content.t = "throw" THEN <<"completion_failed", "mock">>
                            ELSE <<"completion_ok", "parse">>))

\* The request reaches one of the two Azure Functions analyze handlers.
FunctionReceive ==
  /\ handler \in {"analyze", "anonymous"} /\ pc = "received"
  /\ UNCHANGED <<handler, env, req, run, attempts, reply>>
  /\ IF req.method = "OPTIONS" THEN Return(Response(200, "absent", Undef, "", ""))
     ELSE IF req.body.t # "object" THEN OuterCatch(calls)
     ELSE IF InvalidElements(RequestElements(handler, req.body)) THEN Return(BadRequest)
     ELSE IF env.useRealAI /\ env.openai THEN Await("completion", "completion")
     ELSE UseMock(calls)

\* The request reaches the /api/analyze route of server.js.
ExpressReceive ==
  /\ handler = "express" /\ pc = "received"
  /\ UNCHANGED <<handler, env, req, run, attempts, reply>>
  /\ IF InvalidElements(RequestElements(handler, req.body)) THEN Return(BadRequest)
     ELSE IF env.useRealAI /\ env.openai THEN Await("completion", "completion")
     ELSE UseMock(calls)

\* The request reaches the /api/analyze-foundry route of the container
\* server, which runs up to its first await.
AciReceive ==
  /\ handler = "aci" /\ pc = "received"
  /\ UNCHANGED <<handler, env, req, run, attempts, reply>>
  /\ IF InvalidElements(RequestElements(handler, req.body)) THEN Return(BadRequest)
     ELSE IF env.project /\ env.agent /\ env.credentials THEN Await("token", "token")
     ELSE UseMock(calls)

\* rawResponse.trim(), the fence stripping and JSON.parse: the parsed value,
\* or Throw (callAzureOpenAI threw, its content has no trim method, or the
\* cleaned text is no JSON document).
ParsedCompletion(rawResponse) ==
  IF rawResponse.t = "string" THEN JSONParse(CleanResponse(rawResponse.s)) ELSE Throw

\* The handler from the end of its inner try statement on: every exception
\* in it is answered by the mock generator.
AfterCompletion(rawResponse, aiResponse) ==
  Respond(IF aiResponse.t = "throw" THEN GenerateMockAIResponse(Arr(requestElements)) ELSE aiResponse,
          calls \o (IF rawResponse.t = "throw" THEN <<"completion_failed", "mock">>
                    ELSE IF aiResponse.t = "throw" THEN <<"completion_ok", "json_failed", "mock">>
                    ELSE <<"completion_ok">>))

\* callAzureOpenAI returns to the Express route or to an Azure Functions
\* analyze handler, or throws.
CompletionReturn ==
  /\ handler \in {"analyze", "anonymous", "express"} /\ pc = "completion"
  /\ UNCHANGED <<handler, env, req, run, attempts>>
  /\ \E rawResponse \in Outcomes :
       /\ reply' = Received(rawResponse)
       /\ AfterCompletion(rawResponse, ParsedCompletion(rawResponse))

\* The request reaches the Netlify function.
NetlifyReceive ==
  /\ handler = "netlify" /\ pc = "received"
  /\ UNCHANGED <<handler, env, req, run, attempts, reply>>
  /\ IF req.method = "OPTIONS" THEN Return(Response(200, "absent", Undef, "", ""))
     ELSE IF req.body.t # "object" THEN OuterCatch(calls)
     ELSE IF InvalidElements(RequestElements(handler, req.body)) THEN Return(BadRequest)
     ELSE Await("completion", "completion")

\* content.startsWith, the fence stripping and JSON.parse in the Netlify
\* function's callAzureOpenAI: the parsed value, or Throw.
NetlifyParsed(content) ==
  IF content.t = "string" THEN JSONParse(CleanContent(content.s)) ELSE Throw

\* The Netlify function from the return of its callAzureOpenAI on: it
\* answers with the parsed suggestions as they are, and every exception runs
\* the catch block.
NetlifyAfter(content, aiResponse) ==
  IF aiResponse.t = "throw"
  THEN OuterCatch(calls \o (IF content.t = "throw" THEN <<"completion_failed">>
                            ELSE <<"completion_ok", "json_failed">>))
  ELSE /\ res' = SuccessOf(handler, Get(aiResponse, "suggestions"))
       /\ pc' = "done"
       /\ calls' = calls \o <<"completion_ok">>

\* The Netlify function's own callAzureOpenAI returns or throws.
NetlifyCompletionReturn ==
  /\ handler = "netlify" /\ pc = "completion"
  /\ UNCHANGED <<handler, env, req, run, attempts>>
  /\ \E content \in Outcomes :
       /\ reply' = Received(content)
       /\ NetlifyAfter(content, NetlifyParsed(content))

\* The environment variables a handler reads; the others are left unset.
EnvsOf(h) ==
  {e \in Envs : IF h = "foundry" THEN ~e.useRealAI
                ELSE IF h = "netlify" THEN ~e.project /\ ~e.agent /\ ~e.credentials /\ ~e.useRealAI
                ELSE IF h = "aci" THEN ~e.openai /\ ~e.useRealAI
                ELSE ~e.project /\ ~e.agent /\ ~e.credentials}

\* One request has arrived at one handler of one deployment. express.json()
\* hands the Express route an object as req.body whatever the client sent.
Init ==
  /\ handler \in Handlers
  /\ env \in EnvsOf(handler)
  /\ req \in {[method |-> m, body |-> b] : m \in Methods(handler), b \in Bodies}
  /\ handler \in {"express", "aci"} => req.body.t = "object"
  /\ pc = "received"
  /\ run = "none"
  /\ attempts = 0
  /\ reply = Undef
  /\ calls = <<>>
  /\ res = NoResponse

Next ==
  \/ FoundryReceive
  \/ TokenReturn
  \/ ThreadReturn
  \/ MessageReturn
  \/ RunReturn
  \/ PollReturn
  \/ MessagesReturn
  \/ CleanupReturn
  \/ FoundryCompletionReturn
  \/ FunctionReceive
  \/ ExpressReceive
  \/ CompletionReturn
  \/ NetlifyReceive
  \/ NetlifyCompletionReturn
  \/ AciReceive

Spec == Init /\ [][Next]_vars

\* ------------------------------------------------------------------ claims

\* The step named event has happened in this request.
Did(event) == \E i \in DOMAIN calls : calls[i] = event

\* The request is a POST whose elements (as the handler reads them) are an
\* array: it passed the handler's validation.
Accepted ==
  /\ req.method = "POST"
  /\ req.body.t = "object"
  /\ ~InvalidElements(RequestElements(handler, req.body))

\* C1: a POST to analyze-foundry whose elements are an array is never left
\* unanswered by an escaping exception and never answered with a status
\* other than 200; once the handler has finished, the response has status
\* 200 and its suggestions are an array, whatever the token request, the
\* agent calls, the completion call and the parsing did.
C1_FoundryAlwaysAnswers200 ==
  (handler = "foundry" /\ Accepted)
    => /\ pc # "rejected"
       /\ res.status \in {0, 200}
       /\ pc = "done" => res.status = 200 /\ res.suggestions.t = "array"

\* C1 witness: the agent answered, the mapping of its suggestions threw, and
\* the outer catch block answered the request.
C1_Witness ==
  /\ handler = "foundry" /\ Accepted /\ pc = "done"
  /\ Did("agent_ok") /\ Did("catch")
  /\ res.status = 200 /\ res.suggestions.t = "array"

\* C2: in the analyze-foundry handler with the secondary completion tier
\* configured, once the primary agent tier was attempted and failed, the
\* mock generator runs only after the secondary completion call was made
\* and failed.
C2_SecondaryAfterPrimaryFailure ==
  (handler = "foundry" /\ env.openai /\ (Did("token_failed") \/ Did("agent_failed")) /\ Did("mock"))
    => Did("completion") /\ Did("completion_failed")

\* C3: in the analyze-foundry handler with the secondary completion tier
\* configured and a precondition of the primary tier missing, the primary
\* tier is not attempted and no mock result is generated before the
\* secondary completion call was made.
C3_MissingPreconditionGoesToSecondary ==
  (handler = "foundry" /\ env.openai /\ ~(env.project /\ env.agent /\ env.credentials))
    => /\ ~Did("token") /\ ~Did("agent")
       /\ Did("mock") => Did("completion")

\* The ids of the elements of the request, as the handler reads them.
RequestIds ==
  LET sent == IF req.body.t = "object" THEN RequestElements(handler, req.body) ELSE Undef
  IN IF sent.t = "array" THEN {Get(sent.a[i], "id") : i \in 1..Len(sent.a)} ELSE {}

\* C4: in every 200 response that carries suggestions, each suggestion's
\* elementId is null or absent, or is the id of an element of the request.
C4_TargetsAreRequestElements ==
  (res.status = 200 /\ res.suggestions.t = "array")
    => \A i \in 1..Len(res.suggestions.a) :
         LET elementId == Get(res.suggestions.a[i], "elementId")
         IN elementId.t \in {"undefined", "null"} \/ elementId \in RequestIds

\* The elements a body carries, at the top level or under data.
SentElements ==
  LET data == Get(req.body, "data")
  IN OrElse(Get(req.body, "elements"), IF data.t = "object" THEN Get(data, "elements") ELSE Undef)

\* C5: a POST whose body carries no elements, or elements that are not an
\* array, is answered with status 400 and an error text, and neither a
\* provider nor the mock generator is called for it.
C5_InvalidInputIs400 ==
  (req.method = "POST" /\ req.body.t = "object" /\ SentElements.t # "array" /\ pc \in {"done", "rejected"})
    => res.status = 400 /\ res.error # "" /\ calls = <<>>

\* No provider is configured.
NoProvider == ~env.project /\ ~env.agent /\ ~env.credentials /\ ~env.openai /\ ~env.useRealAI

\* C6: with no provider configured, a handler with a mock tier answers an
\* accepted request with status 200 (and success: true where the body has a
\* success member) and the mock generator's suggestions: at least one for a
\* non-empty element list, exactly one of type general for the empty list.
C6_MockAlwaysSuggests ==
  (handler # "netlify" /\ Accepted /\ NoProvider /\ pc \in {"done", "rejected"})
    => /\ res.status = 200
       /\ handler # "express" => res.success = "true"
       /\ res.suggestions.t = "array"
       /\ Len(requestElements) >= 1 => Len(res.suggestions.a) >= 1
       /\ Len(requestElements) = 0 =>
            /\ Len(res.suggestions.a) = 1
            /\ Get(res.suggestions.a[1], "type") = Str(s_general)

\* C7: a response whose suggestions come from the mock generator because a
\* configured provider tier failed has success false or a source label that
\* names the mock (for the handlers whose body has a success member).
C7_MockIsLabelled ==
  (/\ handler \in {"foundry", "analyze", "anonymous"}
   /\ pc = "done" /\ ~Did("catch") /\ Did("mock")
   /\ (Did("token_failed") \/ Did("agent_failed") \/ Did("completion_failed") \/ Did("json_failed")))
    => res.success = "false" \/ res.source = "Mock Fallback"

\* C8: in the Express route and the Netlify function, when the try block
\* throws after an accepted body was read, the catch block answers with
\* status 200 and the mock generator's suggestions for the request's
\* elements; the handler never ends without a response.
C8_CatchAnswersWithMock ==
  (handler \in {"express", "netlify"} /\ Accepted /\ Did("catch"))
    => /\ pc = "done"
       /\ res.status = 200
       /\ res.suggestions = Get(GenerateMockAIResponse(Arr(requestElements)), "suggestions")

\* C9: when the outer catch block of an Azure Functions analyze handler runs
\* for an accepted request, the response has status 200, success false and
\* a suggestions array.
C9_OuterCatchReportsFailure ==
  (handler \in {"foundry", "analyze", "anonymous"} /\ Accepted /\ Did("catch"))
    => /\ pc = "done"
       /\ res.status = 200
       /\ res.success = "false"
       /\ res.suggestions.t = "array"

\* The elementId names no element of the request: it is no element's id,
\* holds no quoted name, and no element's name or type is part of it.
Unresolvable(elementId) ==
  /\ elementId.t = "string"
  /\ ~Includes(elementId.s, <<"\"">>)
  /\ \A k \in 1..Len(requestElements) :
       /\ Get(requestElements[k], "id") # elementId
       /\ ~Includes(elementId.s, ToStringJS(Get(requestElements[k], "name")))
       /\ ~Includes(elementId.s, ToStringJS(Get(requestElements[k], "type")))

\* The suggestions of the provider's JSON reply, in the order it gave them.
ParsedSuggestions ==
  LET aiResponse == IF reply.t = "string" THEN JSONParse(CleanResponse(reply.s)) ELSE Throw
  IN IF Get(aiResponse, "suggestions").t = "array" THEN aiResponse.suggestions.a ELSE <<>>

\* The handler has answered on its normal path with the mapped suggestions
\* of a JSON reply none of whose targets can be resolved, for at least one
\* element.
RoundRobinCase ==
  /\ handler \in {"express", "analyze", "anonymous"} /\ Accepted
  /\ pc = "done" /\ Did("completion_ok") /\ ~Did("mock") /\ ~Did("catch")
  /\ Len(requestElements) >= 1
  /\ ParsedSuggestions # <<>>
  /\ \A j \in 1..Len(ParsedSuggestions) : Unresolvable(Get(ParsedSuggestions[j], "elementId"))

\* The id of elements[index mod N], index zero-based.
IdAtIndex(index) == Get(requestElements[(index % Len(requestElements)) + 1], "id")

\* C10 as stated: the suggestion at (zero-based) index i of the output array
\* has the id of elements[i mod N].
C10_RoundRobinByOutputIndex ==
  RoundRobinCase
    => \A i \in 1..Len(res.suggestions.a) :
         Get(res.suggestions.a[i], "elementId") = IdAtIndex(i - 1)

\* C10, amended: each suggestion of the output array has the id of
\* elements[j mod N], where j is the (zero-based) index the suggestion had in
\* the provider's list, before the filter dropped any suggestion. (Each
\* reply gives at most one suggestion per type, so the type identifies the
\* suggestion.)
C10_RoundRobinByInputIndex ==
  RoundRobinCase
    => \A i \in 1..Len(res.suggestions.a) :
         /\ \E j \in i..Len(ParsedSuggestions) :
              Get(ParsedSuggestions[j], "type") = Get(res.suggestions.a[i], "type")
         /\ \A j \in 1..Len(ParsedSuggestions) :
              Get(ParsedSuggestions[j], "type") = Get(res.suggestions.a[i], "type")
                => Get(res.suggestions.a[i], "elementId") = IdAtIndex(j - 1)

\* C10 witness: the Express route dropped the first of three suggestions and
\* answered with the other two for two elements with different ids.
C10_Witness ==
  /\ RoundRobinCase /\ handler = "express"
  /\ Len(ParsedSuggestions) = 3 /\ Len(res.suggestions.a) = 2
  /\ Len(requestElements) = 2
  /\ Get(requestElements[1], "id") # Get(requestElements[2], "id")
  /\ Get(res.suggestions.a[1], "elementId") = Get(requestElements[2], "id")

\* The suggestions the mock generator gives for the request's elements.
MockSuggestions == Get(GenerateMockAIResponse(Arr(requestElements)), "suggestions").a

\* The handler answered on its normal path with the mapped suggestions of
\* the mock generator, none of them dropped.
MockAnswered ==
  /\ Accepted /\ pc = "done" /\ Did("mock") /\ ~Did("catch")
  /\ res.suggestions.t = "array"
  /\ Len(res.suggestions.a) = Len(MockSuggestions)

\* C11: a suggestion whose raw target is the id of an element of the request
\* is resolved to that element, whatever its position in the list (the mock
\* generator's suggestions carry the ids of the elements they are about).
C11_IdMatchWins ==
  MockAnswered
    => \A i \in 1..Len(MockSuggestions) :
         Get(MockSuggestions[i], "elementId") \in RequestIds
           => Get(res.suggestions.a[i], "elementId") = Get(MockSuggestions[i], "elementId")

\* ------------------------------------------- the coercion functions alone

\* The values a suggestion's suggestedValue or currentValue can hold when
\* the handlers pass it to parseColorValueForFigma: '#' and three pairs of
\* characters (pairs of one character make the text too short), rgb(...)
\* texts with channel numerals inside and outside 0..255, with and without
\* a blank after the comma, and with text in front or behind, other texts,
\* and values that are no strings.
HexPairs == {<<"0", "0">>, <<"8", "0">>, <<"f", "f">>, <<"G", "G">>, <<"f">>}

HexTexts == {<<"#">> \o a \o b \o c : a \in HexPairs, b \in HexPairs, c \in HexPairs}

ChannelNumerals == {<<"0">>, <<"2", "5", "5">>, <<"3", "0", "0">>}

RgbTexts ==
  {before \o x \o s_rgb_open \o a \o <<",">> \o blank \o b \o <<",", "0", ")">> \o after :
     before \in {<<>>, <<"x">>}, x \in {<<>>}, a \in ChannelNumerals, blank \in {<<>>, <<" ">>},
     b \in ChannelNumerals, after \in {<<>>, <<";">>}}

UpperRgbTexts == {<<"R", "G", "B", "(">> \o a \o <<",", "0", ",", "0", ")">> : a \in ChannelNumerals}

OtherTexts == {<<>>, <<"r", "e", "d">>, <<"#">>, s_rgb_open \o <<"1", ".", "5", ",", "0", ",", "0", ")">>}

ColorValues ==
  {Str(s) : s \in HexTexts \cup RgbTexts \cup UpperRgbTexts \cup OtherTexts}
    \cup {Undef, Null, Num(0), Num(255), Rgb(Num(1), Num(0), Num(0)), Arr(<<>>)}

\* A call of a colour conversion on its own: req is the value handed over,
\* res the value returned, pc the conversion that ran.
CoerceInit ==
  /\ req \in ColorValues
  /\ pc = "received"
  /\ res = Undef
  /\ handler = "none"
  /\ env = Undef
  /\ run = Undef
  /\ attempts = 0
  /\ reply = Undef
  /\ calls = <<>>

\* parseColorValueForFigma(req)
CallParseColor ==
  /\ pc = "received"
  /\ pc' = "color"
  /\ res' = ParseColorValueForFigma(req)
  /\ UNCHANGED <<handler, env, req, run, attempts, reply, calls>>

\* The line 'fill ' + req of an agent's message, for a text req.
FillLine(text) == s_fill \o <<" ">> \o text

\* The colour detector of parseFoundryAgentResponse on the line 'fill ' + req
\* for one selected element: res is the list of the suggestions it pushes.
CallColorDetector ==
  /\ pc = "received"
  /\ req.t = "string"
  /\ pc' = "detector"
  /\ res' = Arr(ColorDetector(FillLine(req.s), ToLowerCase(Trim(FillLine(req.s))),
                              BuildElementMap(<<E_card>>, 1, <<>>), <<E_card>>).sugs)
  /\ UNCHANGED <<handler, env, req, run, attempts, reply, calls>>

CoerceNext == CallParseColor \/ CallColorDetector

CoerceSpec == CoerceInit /\ [][CoerceNext]_vars

\* ----------------------------------------------- the polling loop alone

\* Step 4 of callAzureAIFoundryAgent on its own, from the POST that creates
\* the run to the end of the loop: pc is "messages" when the function goes
\* on to retrieve the messages (Step 5) and "threw" when it throws; run is
\* the last status read (threw when the request for it threw) and calls
\* records a time-out.
PollInit ==
  /\ pc = "run"
  /\ run = "none"
  /\ attempts = 0
  /\ calls = <<>>
  /\ handler = "none"
  /\ env = Undef
  /\ req = Undef
  /\ reply = Undef
  /\ res = Undef

\* The loop from its test on, with the status of the run and the attempts
\* made.
LoopAfter(status, made) ==
  /\ UNCHANGED <<handler, env, req, reply, res>>
  /\ IF PollsAgain(status, made)
     THEN run' = status /\ attempts' = made /\ pc' = "poll" /\ calls' = calls
     ELSE /\ run' = status
          /\ attempts' = 0
          /\ pc' = IF ~Pending(status) /\ status \notin {"failed", "threw"} THEN "messages" ELSE "threw"
          /\ calls' = IF Pending(status) THEN calls \o <<"timed_out">> ELSE calls

\* The POST that creates the run returns or throws.
LoopRunReturn == pc = "run" /\ \E status \in RunStatuses \cup {"threw"} : LoopAfter(status, 0)

\* One status poll returns or throws.
LoopPollReturn == pc = "poll" /\ \E status \in RunStatuses \cup {"threw"} : LoopAfter(status, attempts + 1)

PollNext == LoopRunReturn \/ LoopPollReturn

\* Both requests carry a timeout (30 s and 10 s), so each returns or throws
\* and the function takes its next step.
PollSpec == PollInit /\ [][PollNext]_vars /\ WF_vars(PollNext)

\* ------------------------------------------------- claims on the coercion

\* '#' followed by exactly six hexadecimal digits.
IsHexColor(s) == Len(s) = 7 /\ s[1] = "#" /\ \A i \in 2..7 : HexVal(s[i]) >= 0

\* rgb(R,G,B), nothing before or after, every component at most 255.
IsRgbColorOf(s, m) ==
  /\ m.found
  /\ m.whole = s
  /\ \A g \in {m.g1, m.g2, m.g3} : DecValue(g) <= 255

IsRgbColor(s) == IsRgbColorOf(s, RgbAt(s, 1, FALSE))

InColorGrammar(v) == v.t = "string" /\ (IsHexColor(v.s) \/ IsRgbColor(v.s))

\* C12: parseColorValueForFigma never throws, whatever value it is given,
\* and returns null for every value that is neither '#' and six hexadecimal
\* digits nor rgb(R,G,B) with components in 0..255.
C12_CoerceColorTotalAndStrict ==
  pc = "color" => /\ res.t # "throw"
                  /\ (~InColorGrammar(req) => res = Null)


\* A channel of an {r, g, b} object: k / 255 for an integer k of 0..255.
IsChannel(x) == x.t = "number" /\ ~IsNaN(x) /\ \E k \in 0..255 : x = Rat(k, 255)

IsColor(v) == IsChannel(v.r) /\ IsChannel(v.g) /\ IsChannel(v.b)

\* The {r, g, b} objects among the suggested values the colour detector pushed.
DetectedColors ==
  {Get(res.a[i], "suggestedValue") : i \in {j \in 1..Len(res.a) : Get(res.a[j], "suggestedValue").t = "object"}}

\* C14: every {r, g, b} object that parseColorValueForFigma returns or the
\* colour detector of the natural-language parser stores has three channels
\* k / 255 with k an integer of 0..255, whatever the input text.
C14_ChannelsAreBytesOver255 ==
  /\ (pc = "color" /\ res.t = "object") => IsColor(res)
  /\ pc = "detector" => \A c \in DetectedColors : IsColor(c)

\* ---------------------------------------- claims on the enhancement step

\* The handler has answered on its normal path with the mapped suggestions
\* of the secondary provider's JSON reply.
JsonAnswered ==
  /\ handler \in {"express", "analyze", "anonymous"} /\ Accepted
  /\ pc = "done" /\ Did("completion_ok") /\ ~Did("mock") /\ ~Did("catch")
  /\ res.suggestions.t = "array"

\* The suggestedValue of a colour suggestion converts to null, or that of a
\* size suggestion holds no numeral.
Unconvertible(suggestion) ==
  \/ /\ Get(suggestion, "type") = Str(s_color)
     /\ ParseColorValueForFigma(Get(suggestion, "suggestedValue")) = Null
  \/ /\ Get(suggestion, "type") = Str(s_size)
     /\ ParseNumericValueFromAI(Get(suggestion, "suggestedValue")) = Null

\* C13: a colour suggestion whose suggestedValue converts to null, and a size
\* suggestion whose suggestedValue holds no numeral, is in the response with
\* the suggestedValue the provider gave. (Each reply gives at most one
\* suggestion per type, so the type identifies the suggestion.)
C13_UnconvertibleKeepsRaw ==
  JsonAnswered
    => \A j \in 1..Len(ParsedSuggestions) :
         Unconvertible(ParsedSuggestions[j])
           => \E i \in 1..Len(res.suggestions.a) :
                /\ Get(res.suggestions.a[i], "type") = Get(ParsedSuggestions[j], "type")
                /\ Get(res.suggestions.a[i], "suggestedValue") = Get(ParsedSuggestions[j], "suggestedValue")

\* The colour a suggestion proposes: its suggestedValue if that is already
\* an {r, g, b} object, its conversion otherwise.
ProposedColor(suggestedValue) ==
  IF suggestedValue.t = "object" THEN suggestedValue ELSE ParseColorValueForFigma(suggestedValue)

\* Both colours are {r, g, b} objects and their summed channel difference is
\* below 0.01.
NearlySame(currentColor, colorValue) ==
  /\ currentColor.t = "object" /\ colorValue.t = "object"
  /\ BelowHundredth(ColorDiff(currentColor, colorValue))

\* A colour suggestion that proposes, within 0.01, the colour it states as
\* the current one.
NearlyIdentical(suggestion) ==
  /\ Get(suggestion, "type") = Str(s_color)
  /\ Get(suggestion, "currentValue").t = "string"
  /\ Get(suggestion, "suggestedValue").t \in {"string", "object"}
  /\ NearlySame(ParseColorValueForFigma(Get(suggestion, "currentValue")),
                ProposedColor(Get(suggestion, "suggestedValue")))

\* C15: no response holds a colour suggestion whose colour differs from its
\* stated current colour by less than 0.01 in the sum of the channel
\* differences, and every other colour suggestion of a JSON reply is in the
\* response.
C15_NearIdenticalColoursDropped ==
  /\ (Accepted /\ pc = "done" /\ res.suggestions.t = "array")
       => \A i \in 1..Len(res.suggestions.a) : ~NearlyIdentical(res.suggestions.a[i])
  /\ JsonAnswered
       => \A j \in 1..Len(ParsedSuggestions) :
            (Get(ParsedSuggestions[j], "type") = Str(s_color) /\ ~NearlyIdentical(ParsedSuggestions[j]))
              => \E i \in 1..Len(res.suggestions.a) : Get(res.suggestions.a[i], "type") = Str(s_color)

\* ------------------------------------------------- claims on the parsers

\* The api/analyze-foundry handler has handed a non-empty text of a provider
\* to parseFoundryAgentResponse.
ParsedText == handler = "foundry" /\ Accepted /\ Did("parse") /\ reply.t = "string" /\ reply.s # <<>>

\* What the parser returned for it, and what its detectors pushed.
ParserResult == ParseFoundryAgentResponse([t |-> "object", message |-> reply], requestElements)

Detected == NaturalLanguage(reply, requestElements)

\* C16: for a non-empty text parseFoundryAgentResponse returns at least one
\* suggestion; when no detector pushed one, it returns exactly the general
\* suggestion for the first element.
C16_ParserNeverEmpty ==
  ParsedText
    => /\ Get(ParserResult, "suggestions").t = "array"
       /\ ParserResult.suggestions.a # <<>>
       /\ (~Detected.threw /\ Detected.sugs = <<>>)
            => /\ Len(requestElements) > 0
               /\ ParserResult.suggestions.a = <<SummarySuggestion(requestElements)>>

\* The message parseFoundryAgentResponse works on: foundryResponse.message
\* || foundryResponse.
MessageOf(content) == OrElse(content, [t |-> "object", message |-> content])

\* An exception was raised while a provider's payload was parsed: JSON.parse
\* of a completion reply threw, or the try block of the natural-language
\* parser of api/analyze-foundry did.
ParseFailed ==
  /\ Accepted
  /\ \/ Did("json_failed")
     \/ handler = "foundry" /\ Did("parse") /\ NaturalLanguage(MessageOf(reply), requestElements).threw

\* The mock generator's suggestions for the request's elements after the
\* handler's map callback.
MockEnhanced ==
  EnhancedSuggestions(GenerateMockAIResponse(Arr(requestElements)), requestElements, StyleOf(handler))

\* C17: when parsing a provider payload throws, the request still ends with
\* a response that reports no error and carries the mock generator's
\* suggestions for the request's elements.
C17_ParseFailureAnsweredByMock ==
  ParseFailed
    => /\ pc = "done"
       /\ ~Did("catch")
       /\ res.status = 200 /\ res.success # "false" /\ res.error = ""
       /\ ~MockEnhanced.threw
       /\ res.suggestions = Arr(MockEnhanced.items)

\* C18: every suggestion of a response has a type that is neither undefined
\* nor null.
C18_EverySuggestionHasType ==
  (Accepted /\ pc = "done" /\ res.suggestions.t = "array")
    => \A i \in 1..Len(res.suggestions.a) :
         Get(res.suggestions.a[i], "type").t \notin {"undefined", "null"}

\* ------------------------------------------------ claims on the polling

\* The step on which the polling loop times out.
TimesOut == "timed_out" \in {calls'[i] : i \in 1..Len(calls')} /\ ~Did("timed_out")

\* C19: the polling loop terminates. While the run is queued or in_progress
\* at most maxAttempts status polls are made (a poll is awaited only after
\* fewer than maxAttempts polls, and every poll counts); the loop times out
\* only when the last of them returns with the run unfinished, and the
\* function then throws instead of retrieving the messages; and the loop is
\* always left, for the messages or with an exception.
C19_PollingTerminates ==
  /\ [](pc = "poll" => attempts < maxAttempts /\ Pending(run))
  /\ [][(pc = "poll" /\ pc' = "poll") => attempts' = attempts + 1]_vars
  /\ [][TimesOut => (pc = "poll" /\ attempts = maxAttempts - 1 /\ pc' = "threw")]_vars
  /\ [](Did("timed_out") => pc = "threw")
  /\ <>(pc \in {"messages", "threw"})

\* C19 witness: the loop timed out after maxAttempts polls.
C19_Witness == Did("timed_out") /\ pc = "threw"

\* --------------------------------------------- claims on the secondary tier

\* The completion provider's reply, cleaned of its fence and parsed.
ParsedReply == IF reply.t = "string" THEN JSONParse(CleanResponse(reply.s)) ELSE Throw

\* A handler with a mock fall-back has received, from the completion
\* provider, JSON text that holds a suggestions array.
JsonReceived ==
  /\ handler \in {"foundry", "analyze", "anonymous", "express"} /\ Accepted
  /\ pc = "done" /\ Did("completion_ok")
  /\ Get(ParsedReply, "suggestions").t = "array"

\* The entries of that array after the handler's map callback.
ReplyEnhanced == EnhancedSuggestions(ParsedReply, requestElements, StyleOf(handler))

\* C20: when the completion provider replies with JSON text, bare or inside
\* a json fence, that holds a suggestions array, the suggestions of the
\* response are the entries of that array after target resolution and value
\* coercion (where the callback can process them all).
C20_JsonReplyIsUsed ==
  (JsonReceived /\ ~ReplyEnhanced.threw)
    => /\ res.status = 200
       /\ res.suggestions = Arr(ReplyEnhanced.items)

\* ------------------------------------------------- the pipeline run twice

\* Longest element list handed to the pipeline that is run twice.
MaxRunElems == 6

\* What a provider handed back: free text, or nothing (no provider is
\* configured, and the mock generator answers).
Payloads == {Undef, Str(r_fill), Str(r_size), Str(r_plain)}

\* The element lists of a fillable element and a text element.
RunLists == UNION {[1..n -> {E_card, E_title}] : n \in 0..MaxRunElems}

\* The pipeline of api/analyze-foundry from the provider's payload on: the
\* mock generator or the parser, then the map callback.
Pipeline(elements, payload) ==
  EnhancedSuggestions(IF payload.t = "undefined" THEN GenerateMockAIResponse(Arr(elements))
                      ELSE ParseFoundryAgentResponse([t |-> "object", message |-> payload], elements),
                      elements, "functions")

\* The request's elements after the pipeline ran: the mock generator's
\* callback ran for each of them; the parser stores the elements in its
\* elementMap as they are and the map callback reads them (find, index).
ElementsAfter(elements, payload) ==
  IF payload.t = "undefined" THEN [i \in 1..Len(elements) |-> ElementAfter(elements[i], i - 1)]
  ELSE elements

\* One element list and one payload; calls is the list of what the runs of
\* the pipeline returned.
TwiceInit ==
  /\ req \in {[elements |-> l, payload |-> p] : l \in RunLists, p \in Payloads}
  /\ pc = "received"
  /\ calls = <<>>
  /\ handler = "foundry"
  /\ env = Undef
  /\ run = Undef
  /\ attempts = 0
  /\ reply = Undef
  /\ res = Undef

\* One run of the pipeline: a request with the same elements arrives and the
\* provider hands back the same payload.
PipelineRun ==
  /\ Len(calls) < 2
  /\ calls' = Append(calls, Pipeline(req.elements, req.payload))
  /\ req' = [req EXCEPT !.elements = ElementsAfter(req.elements, req.payload)]
  /\ pc' = IF Len(calls) = 0 THEN "once" ELSE "twice"
  /\ UNCHANGED <<handler, env, run, attempts, reply, res>>

TwiceSpec == TwiceInit /\ [][PipelineRun]_vars

\* ------------------------------------------------ two requests in one process

\* The requests in flight.
Requests == {1, 2}

\* The element lists the two requests carry.
PairLists == {<<>>, <<E_card>>, <<E_title>>, <<E_title, E_card>>}

\* Every local of a handler (elements, rawResponse, aiResponse) is declared
\* with const or let inside the handler function: each invocation has a
\* scope of its own. ModuleScope is a handler whose locals are module-level
\* variables, one scope for every invocation.
ModuleScope(request) == 1

HandlerScope(request) == request

\* The response of the api/analyze-foundry handler from aiResponse on.
Served(enhanced) ==
  IF enhanced.threw THEN CatchOf("foundry") ELSE SuccessOf("foundry", Arr(enhanced.items))

\* The response to elements and what callAzureAIFoundryAgent returned
\* (nothing: the mock generator answers).
ResponseTo(elements, payload) == Served(Pipeline(elements, payload))

\* Two requests have arrived at one process. env is read from process.env
\* and is not written; calls holds the locals of each invocation's scope.
PairInit ==
  /\ handler = "foundry"
  /\ env \in {[project |-> TRUE, agent |-> TRUE, credentials |-> c, openai |-> FALSE] : c \in BOOLEAN}
  /\ req \in [Requests -> {[elements |-> l] : l \in PairLists}]
  /\ pc = [i \in Requests |-> "received"]
  /\ calls = [i \in Requests |-> Undef]
  /\ reply = [i \in Requests |-> Undef]
  /\ res = [i \in Requests |-> Undef]
  /\ run = Undef
  /\ attempts = 0

\* The handler is invoked for request i and runs up to its first await:
\* elements is bound, and the agent is called or the mock generator answers.
PairReceive ==
  \E i \in Requests :
    /\ pc[i] = "received"
    /\ calls' = [calls EXCEPT ![HandlerScope(i)] = [elements |-> req[i].elements]]
    /\ IF env.project /\ env.agent /\ env.credentials
       THEN /\ pc' = [pc EXCEPT ![i] = "agent"]
            /\ res' = res
       ELSE /\ pc' = [pc EXCEPT ![i] = "done"]
            /\ res' = [res EXCEPT ![i] = ResponseTo(req[i].elements, Undef)]
    /\ UNCHANGED <<handler, env, req, run, attempts, reply>>

\* callAzureAIFoundryAgent returns to the invocation for request i, with the
\* assistant's text or with an exception, and the handler runs to its end
\* with the elements of its scope.
PairAgentReturn ==
  \E i \in Requests, payload \in Payloads :
    /\ pc[i] = "agent"
    /\ reply' = [reply EXCEPT ![i] = payload]
    /\ pc' = [pc EXCEPT ![i] = "done"]
    /\ res' = [res EXCEPT ![i] = ResponseTo(calls[HandlerScope(i)].elements, payload)]
    /\ UNCHANGED <<handler, env, req, run, attempts, calls>>

PairNext == PairReceive \/ PairAgentReturn

PairSpec == PairInit /\ [][PairNext]_vars

\* --------------------------------------------------------- the Figma plugin

\* Most elements the user has selected, and most messages in flight when the
\* user acts.
MaxSelection == 2
MaxInFlight == 2

\* A message without a payload, and the selection-data message.
Msg(type) == [type |-> type]

SelectionData(count) == [type |-> "selection-data", count |-> count]

\* What handleAnalyzeSelection posts for a selection of count nodes.
HandleAnalyzeSelection(count) ==
  IF count = 0 THEN <<Msg("error")>> ELSE <<Msg("analysis-started"), Msg("get-ai-config")>>

\* What figma.ui.onmessage posts to the UI for msg. No code of the UI posts
\* make-ai-request, so handleAIRequest is never called.
MainPosts(msg, count) ==
  CASE msg.type = "analyze-selection" -> HandleAnalyzeSelection(count)
    [] msg.type = "get-selection-data" -> <<SelectionData(count)>>
    [] OTHER -> <<>>

\* The UI after window.onmessage ran for message: the loading indicator and
\* the disabled flag of the analyze button.
UiAfter(ui, message) ==
  CASE message.type = "selection-data" -> [ui EXCEPT !.disabled = (message.count = 0)]
    [] message.type = "analysis-started" -> [loading |-> TRUE, disabled |-> TRUE]
    [] message.type = "error" -> [loading |-> FALSE, disabled |-> FALSE]
    [] OTHER -> ui

\* The plugin has been started: code.js has posted the selection data and
\* ui.js has asked for them. env is the size of the selection, req the
\* messages on their way to the main thread, reply those on their way to the
\* UI, and res the UI.
PluginInit ==
  /\ handler = "plugin"
  /\ pc = "shown"
  /\ env \in 0..MaxSelection
  /\ req = <<Msg("get-selection-data")>>
  /\ reply = <<SelectionData(env)>>
  /\ res \in {[loading |-> FALSE, disabled |-> d] : d \in BOOLEAN}
  /\ run = Undef
  /\ attempts = 0
  /\ calls = <<>>

\* The user may act: few messages are in flight.
Quiet == Len(req) + Len(reply) < MaxInFlight

\* The user clicks the analyze button.
ClickAnalyze ==
  /\ Quiet /\ ~res.disabled
  /\ req' = Append(req, Msg("analyze-selection"))
  /\ UNCHANGED <<handler, env, pc, run, attempts, reply, calls, res>>

\* The user clicks the debug button.
ClickDebug ==
  /\ Quiet
  /\ req' = Append(req, Msg("get-selection-data"))
  /\ UNCHANGED <<handler, env, pc, run, attempts, reply, calls, res>>

\* The user changes the selection: figma.on('selectionchange').
SelectionChange ==
  /\ Quiet
  /\ \E count \in (0..MaxSelection) \ {env} :
       /\ env' = count
       /\ reply' = Append(reply, SelectionData(count))
  /\ UNCHANGED <<handler, req, pc, run, attempts, calls, res>>

\* figma.ui.onmessage runs for the next message of the UI.
MainReceive ==
  /\ req # <<>>
  /\ req' = Tail(req)
  /\ reply' = reply \o MainPosts(Head(req), env)
  /\ UNCHANGED <<handler, env, pc, run, attempts, calls, res>>

\* window.onmessage runs for the next message of the main thread.
UiReceive ==
  /\ reply # <<>>
  /\ reply' = Tail(reply)
  /\ res' = UiAfter(res, Head(reply))
  /\ UNCHANGED <<handler, env, req, pc, run, attempts, calls>>

PluginNext == ClickAnalyze \/ ClickDebug \/ SelectionChange \/ MainReceive \/ UiReceive

\* Every posted message is delivered and its handler runs; the user is free
\* to do nothing.
PluginSpec == PluginInit /\ [][PluginNext]_vars /\ WF_vars(MainReceive) /\ WF_vars(UiReceive)

\* ------------------------------------------------- the suggestion list of the UI

\* Most clicks on Apply Change that are followed.
MaxApplies == 2

\* The lists displaySuggestions is called with: none, and the suggestions
\* for one or two elements.
DisplayLists ==
  {<<>>} \cup {Get(GenerateMockAIResponse(Arr(l)), "suggestions").a :
                 l \in {<<>>, <<E_card>>, <<E_title>>, <<E_card, E_title>>, <<E_title, E_card>>}}

\* list.splice(index, 1), index zero-based and in range.
Splice(list, index) == SubSeq(list, 1, index) \o SubSeq(list, index + 2, Len(list))

\* The UI script has loaded: currentSuggestions = [] and the suggestion list
\* has no children. res.items holds, for each child of suggestionsList, the
\* index in its onclick attributes and whether its pointer events are off;
\* req is the list displayed and calls the clicks on Apply Change with the
\* suggestion each posted (undefined: none).
UiInit ==
  /\ handler = "ui"
  /\ pc = "loaded"
  /\ req = <<>>
  /\ res = [currentSuggestions |-> <<>>, items |-> <<>>]
  /\ calls = <<>>
  /\ env = Undef
  /\ run = Undef
  /\ attempts = 0
  /\ reply = Undef

\* displaySuggestions(suggestions), once.
DisplaySuggestions ==
  /\ pc = "loaded"
  /\ \E suggestions \in DisplayLists :
       /\ req' = suggestions
       /\ res' = [currentSuggestions |-> suggestions,
                  items |-> [i \in 1..Len(suggestions) |-> [index |-> i - 1, dismissed |-> FALSE]]]
  /\ pc' = "displayed"
  /\ UNCHANGED <<handler, env, run, attempts, reply, calls>>

\* A click on Apply Change of an item whose pointer events are on:
\* applySuggestion(index).
ClickApply ==
  /\ pc = "displayed" /\ Len(calls) < MaxApplies
  /\ \E k \in DOMAIN res.items :
       /\ ~res.items[k].dismissed
       /\ calls' = Append(calls, [item |-> k - 1,
                                  suggestion |-> IF res.items[k].index < Len(res.currentSuggestions)
                                                 THEN res.currentSuggestions[res.items[k].index + 1]
                                                 ELSE Undef])
  /\ UNCHANGED <<handler, env, req, pc, run, attempts, reply, res>>

\* A click on Dismiss of an item whose pointer events are on:
\* dismissSuggestion(index).
ClickDismiss ==
  /\ pc = "displayed"
  /\ \E k \in DOMAIN res.items :
       /\ ~res.items[k].dismissed
       /\ res' = IF res.items[k].index < Len(res.currentSuggestions)
                 THEN [currentSuggestions |-> Splice(res.currentSuggestions, res.items[k].index),
                       items |-> [res.items EXCEPT ![res.items[k].index + 1].dismissed = TRUE]]
                 ELSE res
  /\ UNCHANGED <<handler, env, req, pc, run, attempts, reply, calls>>

UiNext == DisplaySuggestions \/ ClickApply \/ ClickDismiss

UiSpec == UiInit /\ [][UiNext]_vars

\* --------------------------------------------------- claims on determinism

\* palette[i mod 5], i zero-based, as an {r, g, b} object.
PaletteColor(i) ==
  StringColor(<<s_palette1, s_palette2, s_palette3, s_palette4, s_palette5>>[(i % 5) + 1])

\* The positions of the fillable elements of the request, in order, and the
\* colour suggestions of the first run, in order.
FillablePositions ==
  SelectSeq([i \in 1..Len(req.elements) |-> i], LAMBDA i : req.elements[i].type.s \in FillableTypes)

ColorSuggestions == SelectSeq(calls[1].items, LAMBDA s : Get(s, "type") = Str(s_color))

ParsedAt(i) ==
  \/ calls[i] = "parse"
  \/ calls[i] = "completion_ok" /\ ~Did("json_failed")

\* The step at position j of the log called the mock generator: on the
\* fallback path, or in an outer catch block that answers with
\* generateMockAIResponse([]).
MockAt(j) ==
  \/ calls[j] = "mock"
  \/ calls[j] = "catch" /\ res # NoResponse

\* C23: the completion provider is never called after the agent call
\* succeeded, and the mock generator is never called after a provider tier
\* succeeded and its payload was parsed.
C23_NoTierAfterSuccess ==
  \A i \in DOMAIN calls : \A j \in DOMAIN calls :
    i < j => /\ (calls[i] = "agent_ok" => calls[j] # "completion")
             /\ (ParsedAt(i) => ~MockAt(j))

\* ------------------------------------------- claims on the mock generator

\* The suggestions of type kind in the response.
OfType(kind) == SelectSeq(res.suggestions.a, LAMBDA s : Get(s, "type") = Str(kind))

\* A handler with a mock tier has answered an accepted request for the one
\* rectangle "1:1" (100 by 50) with no provider configured.
OneRectangleNoProvider ==
  /\ handler # "netlify" /\ Accepted /\ NoProvider
  /\ requestElements = <<E_card>>
  /\ pc \in {"done", "rejected"}

C26_DetectedColorReachesCaller ==
  (handler = "foundry" /\ Accepted /\ pc \in {"done", "rejected"} /\ Did("agent_ok")
     /\ reply = Str(r_fill) /\ requestElements # <<>>)
    => /\ res.suggestions.t = "array"
       /\ \E i \in DOMAIN res.suggestions.a :
            /\ Get(res.suggestions.a[i], "type") = Str(s_color)
            /\ Get(res.suggestions.a[i], "suggestedValue") = StringColor(<<"#", "f", "f", "0", "0", "0", "0">>)

\* C27: for the text "card width 120px" (an integer followed by px, and the
\* word width) and a non-empty element list the parser emits a size
\* suggestion for the property width with the value 120.
C27_SizeLineGivesSizeSuggestion ==
  (ParsedText /\ reply = Str(r_size) /\ requestElements # <<>> /\ ~Detected.threw)
    => \E i \in DOMAIN Detected.sugs :
         /\ Get(Detected.sugs[i], "type") = Str(s_size)
         /\ Get(Detected.sugs[i], "property") = Str(s_width)
         /\ Get(Detected.sugs[i], "suggestedValue") = Num(120)

\* -------------------------------------------------- claims on the run status

\* C28: callAzureAIFoundryAgent goes on to retrieve the messages only when
\* the run reached the status completed; every other status that ends the
\* polling loop makes it throw.
C28_OnlyCompletedRunsSucceed == pc = "messages" => run = "completed"

\* ------------------------------------------------------- claims on the plugin

\* C29: once the UI has entered the loading state on analysis-started, it
\* eventually leaves it.
C29_LoadingEnds == res.loading ~> ~res.loading

\* C30: a click on Apply Change of the item created for list[k] posts
\* apply-suggestion with list[k], whatever was dismissed before, and never
\* the suggestion of an item that is dismissed.
C30_ApplySendsItsOwnSuggestion ==
  [][calls' # calls
       => LET click == calls'[Len(calls')]
          IN /\ click.suggestion = req[click.item + 1]
             /\ \A j \in DOMAIN res.items : res.items[j].dismissed => req[j] # click.suggestion]_vars
====
